---- MODULE Spec2Model ----
(***************************************************************************)
(* Value255 / MutableValue255 (components/value): a 0..255 byte value with *)
(* 4 bytes of inline storage, heap storage above that, and a per-instance  *)
(* spin flag taken by every public operation.                              *)
(*                                                                         *)
(*   Spec      one caller: create, clone, set, moves, destruction, ==      *)
(*   SpecCmp   three values built by create; == and <=> applied to pairs   *)
(*   SpecConc  two threads stepping through SpinGuard lock / body / unlock *)
(***************************************************************************)
EXTENDS Integers, Sequences, FiniteSets, TLC

VARIABLES inst, heap, last, thr, pspec, given

vars == <<inst, heap, last, thr, pspec, given>>

(***************************************************************************)
(* Bounds of the model and constants of the program.                       *)
(***************************************************************************)
MaxLen == 7

MaxBlocks == 2

INLINE_SIZE == 4

NULL == 0

\* What a read of memory that holds no written byte yields (uninitialised
\* or freed memory): never a value of a real byte.
Garbage == -1

Inst == {1, 2, 3}

Slots == {1, 2}

Threads == {"T1", "T2"}

Addrs == 1..MaxBlocks

\* The byte buffers a caller passes: for each length the ramp 1,2,3,... and
\* the ramp with its first byte 0xFF.
Ramp(n) == [i \in 1..n |-> i]

Inputs ==
    UNION { { Ramp(n), [i \in 1..n |-> IF i = 1 THEN 255 ELSE i] } :
            n \in 0..MaxLen }

\* A null pointer is passed with these sizes.
NullSizes == {0, 1, INLINE_SIZE + 1}

(***************************************************************************)
(* The heap: heap_caps_malloc / heap_caps_free.  freed and mallocs log the *)
(* calls of the operation in progress; fault records a free or a write     *)
(* that hits no allocated block or runs past its end.                      *)
(***************************************************************************)
NoBlock == [alloc |-> FALSE, cap |-> 0, mem |-> <<>>]

\* A heap with room for one block at each address of A, none in use.
HeapOf(A) ==
    [blocks |-> [p \in A |-> NoBlock], freed |-> <<>>, mallocs |-> <<>>,
     fault |-> FALSE]

EmptyHeap == HeapOf(Addrs)

HeapAddrs(h) == DOMAIN h.blocks

StartOp(h) == [h EXCEPT !.freed = <<>>, !.mallocs = <<>>]

Allocated(h) == {p \in HeapAddrs(h) : h.blocks[p].alloc}

\* What heap_caps_malloc may return: NULL, or any block not in use.
MallocOutcomes(h) == {NULL} \cup (HeapAddrs(h) \ Allocated(h))

heap_caps_malloc(h, size, p) ==
    IF p = NULL
    THEN [h EXCEPT !.mallocs = Append(@, NULL)]
    ELSE [h EXCEPT !.mallocs = Append(@, p),
                   !.blocks[p] = [alloc |-> TRUE, cap |-> size,
                                  mem |-> [i \in 1..size |-> Garbage]]]

heap_caps_free(h, p) ==
    IF p \in HeapAddrs(h) /\ h.blocks[p].alloc
    THEN [h EXCEPT !.freed = Append(@, p), !.blocks[p] = NoBlock]
    ELSE [h EXCEPT !.freed = Append(@, p), !.fault = TRUE]

\* memcpy( p, data, n ) into the heap.
HeapWrite(h, p, data, n) ==
    IF p \in HeapAddrs(h) /\ h.blocks[p].alloc /\ n <= h.blocks[p].cap
    THEN [h EXCEPT !.blocks[p].mem =
              [i \in 1..Len(@) |-> IF i <= n THEN data[i] ELSE @[i]]]
    ELSE [h EXCEPT !.fault = TRUE]

\* The n bytes at heap address p.
HeapRead(h, p, n) ==
    [i \in 1..n |->
        IF p \in HeapAddrs(h) /\ h.blocks[p].alloc /\ i <= h.blocks[p].cap
        THEN h.blocks[p].mem[i] ELSE Garbage]

(***************************************************************************)
(* A Value255 object: lock_, size_, raw_data_[INLINE_SIZE].  live is the   *)
(* object's lifetime (constructed and not yet destroyed).                  *)
(***************************************************************************)
ZeroRaw == [i \in 1..INLINE_SIZE |-> 0]

DefaultValue ==
    [live |-> TRUE, lock_ |-> FALSE, size_ |-> 0, raw_data_ |-> ZeroRaw]

NoValue ==
    [live |-> FALSE, lock_ |-> FALSE, size_ |-> 0, raw_data_ |-> ZeroRaw]

\* reinterpret_cast of an address to and from the INLINE_SIZE bytes of
\* raw_data_ (little-endian, sizeof( uintptr_t ) == 4).
AddrBytes(p) ==
    [i \in 1..INLINE_SIZE |->
        IF i = 1 THEN p % 256
        ELSE IF i = 2 THEN (p \div 256) % 256
        ELSE IF i = 3 THEN (p \div 65536) % 256
        ELSE (p \div 16777216) % 256]

heapPointer(v) ==
    v.raw_data_[1] + 256 * v.raw_data_[2] + 65536 * v.raw_data_[3]
        + 16777216 * v.raw_data_[4]

\* Fault: the inline buffer taken to be one byte shorter.
isHeapAllocated_inclusive(v) == v.size_ >= INLINE_SIZE

isHeapAllocated(v) == v.size_ > INLINE_SIZE

size_unlocked(v) == v.size_

\* The size_ bytes data_unlocked() points at.
data_unlocked(v, h) ==
    IF isHeapAllocated(v)
    THEN HeapRead(h, heapPointer(v), v.size_)
    ELSE [i \in 1..v.size_ |-> IF i <= INLINE_SIZE THEN v.raw_data_[i] ELSE Garbage]

(***************************************************************************)
(* Private methods: cleanup, moveFrom, set.  Each yields the object(s) and *)
(* the heap as the method leaves them.                                     *)
(***************************************************************************)
\* Fault: cleanup without the release of the block.
cleanup_leaks(v, h) ==
    [v |-> [v EXCEPT !.raw_data_ = ZeroRaw, !.size_ = 0], h |-> h]

\* Fault: cleanup without the reset of size_.
cleanup_keeps_size(v, h) ==
    [v |-> [v EXCEPT !.raw_data_ = ZeroRaw],
     h |-> IF isHeapAllocated(v) THEN heap_caps_free(h, heapPointer(v)) ELSE h]

cleanup(v, h) ==
    [v |-> [v EXCEPT !.raw_data_ = ZeroRaw, !.size_ = 0],
     h |-> IF isHeapAllocated(v) THEN heap_caps_free(h, heapPointer(v)) ELSE h]

\* Fault: moveFrom without the reset of the source.
moveFrom_keeps_source(this, other) ==
    [this |-> [this EXCEPT !.size_ = other.size_, !.raw_data_ = other.raw_data_],
     other |-> other]

moveFrom(this, other) ==
    [this |-> [this EXCEPT !.size_ = other.size_, !.raw_data_ = other.raw_data_],
     other |-> [other EXCEPT !.raw_data_ = ZeroRaw, !.size_ = 0]]

\* std::memcpy( raw_data_, data, size ) on the inline buffer.
CopyInline(raw, data, size) ==
    [i \in 1..INLINE_SIZE |-> IF i <= size THEN data[i] ELSE raw[i]]

\* Fault: a null pointer refused whatever the size.
InvalidParams_anyNull(isNull, size) == isNull

\* The parameter check of set: data is null while size is non-zero.
InvalidParams(isNull, size) == size > 0 /\ isNull

\* Fault: a fresh block also when the size is unchanged.
NeedsAlloc_always(size, cur) == size >= cur

\* Fault: a fresh block whenever the size changes.
NeedsAlloc_onChange(size, cur) == size # cur

\* Fault: the block owned kept whenever there is one.
NeedsAlloc_onlyFromInline(size, cur) == cur <= INLINE_SIZE

\* The test of set that decides between a fresh block and the block owned.
NeedsAlloc(size, cur) == size > cur

\* Value255::set( data, size ); p is what heap_caps_malloc returns if called.
set(v, h, isNull, data, size, p) ==
    IF InvalidParams(isNull, size)
    THEN LET c == cleanup(v, h) IN [v |-> c.v, h |-> c.h, ans |-> FALSE]
    ELSE IF size <= INLINE_SIZE
    THEN LET c == cleanup(v, h) IN
         [v |-> [c.v EXCEPT !.raw_data_ = CopyInline(@, data, size),
                            !.size_ = size],
          h |-> c.h, ans |-> TRUE]
    ELSE IF NeedsAlloc(size, v.size_)
    THEN LET c == cleanup(v, h)
             m == heap_caps_malloc(c.h, size, p)
             w == [c.v EXCEPT !.raw_data_ = AddrBytes(p)]
         IN  IF p = NULL
             THEN [v |-> c.v, h |-> m, ans |-> FALSE]
             ELSE [v |-> [w EXCEPT !.size_ = size],
                   h |-> HeapWrite(m, heapPointer(w), data, size),
                   ans |-> TRUE]
    ELSE [v |-> [v EXCEPT !.size_ = size],
          h |-> HeapWrite(h, heapPointer(v), data, size),
          ans |-> TRUE]

\* Value255::set up to, and without, its last assignment size_ = size.
set_beforeSize(v, h, isNull, data, size, p) ==
    LET r == set(v, h, isNull, data, size, p)
        kept == ~InvalidParams(isNull, size) /\ size > INLINE_SIZE
                   /\ ~NeedsAlloc(size, v.size_)
    IN  [v |-> IF r.ans THEN [r.v EXCEPT !.size_ = IF kept THEN v.size_ ELSE 0]
               ELSE r.v,
         h |-> r.h, ans |-> r.ans]

\* The heap as set finds it when it calls heap_caps_malloc (after cleanup).
HeapAtMalloc(v, h) == cleanup(v, h).h

\* Whether set( data, size ) on v reaches heap_caps_malloc.
CallsMalloc(v, isNull, size) ==
    /\ ~InvalidParams(isNull, size)
    /\ size > INLINE_SIZE
    /\ NeedsAlloc(size, v.size_)

\* The outcomes of heap_caps_malloc open to set( data, size ) on v.
SetOutcomes(v, h, isNull, size) ==
    IF CallsMalloc(v, isNull, size) THEN MallocOutcomes(HeapAtMalloc(v, h))
    ELSE {NULL}

(***************************************************************************)
(* Public operations, as functions of the objects and the heap.            *)
(***************************************************************************)
\* Value255::create: a local pv is set, moved into the result when set
\* succeeded, and destroyed on return.
create(h, isNull, data, size, p) ==
    LET s == set(DefaultValue, h, isNull, data, size, p)
        m == moveFrom(DefaultValue, s.v)
    IN  IF s.ans
        THEN [ok |-> TRUE, v |-> m.this, h |-> cleanup(m.other, s.h).h]
        ELSE [ok |-> FALSE, v |-> NoValue, h |-> cleanup(s.v, s.h).h]

size(v) == v.size_

bytes(v, h) ==
    IF isHeapAllocated(v)
    THEN HeapRead(h, heapPointer(v), v.size_)
    ELSE [i \in 1..v.size_ |-> IF i <= INLINE_SIZE THEN v.raw_data_[i] ELSE Garbage]

\* The digits of the presentation type X.
HexDigits ==
    <<"0", "1", "2", "3", "4", "5", "6", "7", "8", "9", "A", "B", "C", "D",
      "E", "F">>

\* std::format( "0x{:02X}", static_cast<unsigned>( b ) ), as characters.
Format02X(x) ==
    IF x \in 0..255
    THEN <<"0", "x", HexDigits[(x \div 16) + 1], HexDigits[(x % 16) + 1]>>
    ELSE <<"0", "x", "?", "?">>

\* The loop of str from index i (0-based) on: each byte, then a blank when
\* another byte follows.
RECURSIVE StrLoop(_, _, _)
StrLoop(ptr, sz, i) ==
    IF i < sz
    THEN Format02X(ptr[i + 1]) \o (IF i + 1 < sz THEN <<" ">> ELSE <<>>)
            \o StrLoop(ptr, sz, i + 1)
    ELSE <<>>

\* Value255::str, as characters.
str(v, h) ==
    <<"[", " ">> \o StrLoop(data_unlocked(v, h), size_unlocked(v), 0)
        \o <<" ", "]">>

\* Fault: the copy shares the source's storage.
clone_shallow(v, h, p) ==
    [ok |-> TRUE, v |-> [v EXCEPT !.lock_ = FALSE], h |-> StartOp(h)]

\* Value255::clone: create from data_unlocked() and size_unlocked().
clone(v, h, p) == create(h, FALSE, data_unlocked(v, h), size_unlocked(v), p)

\* Fault: no identity test.
SameInstance_never(a, b) == FALSE

\* The identity test of operator=, operator== and operator<=>.
SameInstance(a, b) == a = b

\* Fault: move assignment without the cleanup of this.
MoveAssign_noCleanup(I, h, a, b) ==
    IF ~SameInstance(a, b)
    THEN LET m == moveFrom(I[a], I[b])
         IN  [I |-> [I EXCEPT ![a] = m.this, ![b] = m.other], h |-> h]
    ELSE [I |-> I, h |-> h]

\* Value255::operator=( Value255 && ) on objects a (this) and b (other) of I.
MoveAssign(I, h, a, b) ==
    IF ~SameInstance(a, b)
    THEN LET c == cleanup(I[a], h)
             J == [I EXCEPT ![a] = c.v]
             m == moveFrom(J[a], J[b])
         IN  [I |-> [J EXCEPT ![a] = m.this, ![b] = m.other], h |-> c.h]
    ELSE [I |-> I, h |-> h]

\* operator=( Value255 && ) up to, and without, the reset of other at the
\* end of moveFrom.
MoveAssign_beforeReset(I, h, a, b) ==
    LET r == MoveAssign(I, h, a, b)
    IN  [I |-> [r.I EXCEPT ![b] = IF SameInstance(a, b) THEN @ ELSE I[b]], h |-> r.h]

\* Value255::Value255( Value255 && ): a is the object under construction.
MoveConstruct(I, h, a, b) ==
    LET m == moveFrom(DefaultValue, I[b])
    IN  [I |-> [I EXCEPT ![a] = m.this, ![b] = m.other], h |-> h]

\* Fault: only the first byte compared.
StdEqual_firstOnly(x, y, n) == x[1] = y[1]

\* std::equal( a, a + n, b ).
StdEqual(x, y, n) == \A i \in 1..n : x[i] = y[i]

\* Value255::operator==.
Equals(I, h, a, b) ==
    IF SameInstance(a, b) THEN TRUE
    ELSE IF I[a].size_ # I[b].size_ THEN FALSE
    ELSE IF I[a].size_ = 0 THEN TRUE
    ELSE StdEqual(data_unlocked(I[a], h), data_unlocked(I[b], h), I[a].size_)

\* std::compare_three_way on two std::byte (an enumeration over unsigned
\* char): the bytes compare as 0..255.
Order(x, y) == IF x < y THEN "less" ELSE IF x > y THEN "greater" ELSE "equal"

AsSignedChar(x) == IF x >= 128 THEN x - 256 ELSE x

\* Fault: the bytes compared as signed char.
ByteCompare_signed(x, y) == Order(AsSignedChar(x), AsSignedChar(y))

ByteCompare(x, y) == Order(x, y)

\* std::lexicographical_compare_three_way( x, x + Len(x), y, y + Len(y) ).
Lexicographical3Way(x, y) ==
    LET n == IF Len(x) < Len(y) THEN Len(x) ELSE Len(y)
        d == {i \in 1..n : ByteCompare(x[i], y[i]) # "equal"}
    IN  IF d = {} THEN Order(Len(x), Len(y))
        ELSE LET i == CHOOSE j \in d : \A k \in d : j <= k
             IN  ByteCompare(x[i], y[i])

\* Value255::operator<=>.
Compare(I, h, a, b) ==
    IF SameInstance(a, b) THEN "equal"
    ELSE IF I[a].size_ < I[b].size_ THEN "less"
    ELSE IF I[a].size_ > I[b].size_ THEN "greater"
    ELSE IF I[a].size_ = 0 THEN "equal"
    ELSE Lexicographical3Way(data_unlocked(I[a], h), data_unlocked(I[b], h))

(***************************************************************************)
(* machine::property: Format, Permission, Resolution and Spec.  A Spec is  *)
(* its control byte frags_ and the values initVal_, minVal_ and maxVal_.   *)
(***************************************************************************)
\* Format::Kind.
Numeric == 0

Boolean == 1

BitSet == 2

String == 3

BOOL_MIN == 0

BOOL_MAX == 1

BOOL_SIZE == 1

MAX_BITSET_SIZE == 4

MAX_NUMERIC_SIZE == 4

MAX_STRING_SIZE == 192

FORMAT_KIND_BITS == 2

PERMISSION_KIND_BITS == 2

RESOLUTION_KIND_BITS == 3

\* The bytes isWithinRange takes for false and true.
BOOL_FALSE == 0

BOOL_TRUE == 1

\* Permission::Kind and Resolution::Kind, as their raw values.
PermissionKinds == 0..(2^PERMISSION_KIND_BITS - 1)

ResolutionKinds == 0..(2^RESOLUTION_KIND_BITS - 1)

\* raw & MASK of the three fromRaw.
Format_fromRaw(raw) == raw % 2^FORMAT_KIND_BITS

Permission_fromRaw(raw) == raw % 2^PERMISSION_KIND_BITS

Resolution_fromRaw(raw) == raw % 2^RESOLUTION_KIND_BITS

\* static_cast<std::int8_t> of an int.
AsInt8(x) == IF x % 256 >= 128 THEN (x % 256) - 256 ELSE x % 256

\* Fault: bits 2:1 returned without the sign.
shiftOf_unsigned(v) == (v \div 2) % 4

\* Resolution::shiftOf: bits 2:1 shifted to the top of a std::int8_t and
\* back by an arithmetic shift.
shiftOf(v) ==
    LET raw == v
        bit2_bit1 == (raw \div 2) % 4
    IN  AsInt8(AsInt8(bit2_bit1 * 64) \div 64)

\* Resolution::coeffOf.
coeffOf(v) == IF v % 2 # 0 THEN 5 ELSE 1

\* Resolution::scaleFactorOf: coeff * 10^shift, as <<numerator,
\* denominator>>.
scaleFactorOf(v) ==
    IF shiftOf(v) >= 0 THEN <<coeffOf(v) * 10^shiftOf(v), 1>>
    ELSE <<coeffOf(v), 10^(0 - shiftOf(v))>>

\* Fault: the test of the two bytes left out.
fromValueRange_sizesOnly(min, max, h) ==
    IF size(min) = 0 /\ size(max) = 0 THEN String
    ELSE IF size(min) = 0 /\ size(max) # 0 THEN BitSet
    ELSE IF size(min) = 1 /\ size(max) = 1 THEN Boolean
    ELSE Numeric

\* Format::fromValueRange( min, max ).
fromValueRange(min, max, h) ==
    IF size(min) = 0 /\ size(max) = 0 THEN String
    ELSE IF size(min) = 0 /\ size(max) # 0 THEN BitSet
    ELSE IF /\ size(min) = 1 /\ bytes(min, h)[1] = BOOL_MIN
            /\ size(max) = 1 /\ bytes(max, h)[1] = BOOL_MAX
    THEN Boolean
    ELSE Numeric

\* A Fragments object from its four initialisers, in the order of the
\* bit-fields: 2, 2, 3 and 1 bits, the first in the low bits.
Fragments(f1, f2, f3, f4) ==
    (f1 % 4) + 4 * (f2 % 4) + 16 * (f3 % 8) + 128 * (f4 % 2)

\* The getters: each reads its bit-field of frags_ through fromRaw.
format(s) == Format_fromRaw(s.frags_ % 4)

permission(s) == Permission_fromRaw((s.frags_ \div 4) % 4)

resolution(s) == Resolution_fromRaw((s.frags_ \div 16) % 8)

NoPropSpec ==
    [live |-> FALSE, frags_ |-> 0, initVal_ |-> NoValue, minVal_ |-> NoValue,
     maxVal_ |-> NoValue]

PSlots == {1, 2}

NoSpecs == [s \in PSlots |-> NoPropSpec]

\* The permission and the resolution the caller passes to Spec::create.
NoGiven == [perm |-> 0, reso |-> 0]

\* Spec::Spec( frags, init_val, min_val, max_val ): each member is move
\* constructed.  Yields the Spec and the three sources as they are left.
SpecCtor(frags, iv, mn, mx) ==
    LET i == moveFrom(DefaultValue, iv)
        n == moveFrom(DefaultValue, mn)
        x == moveFrom(DefaultValue, mx)
    IN  [this |-> [live |-> TRUE, frags_ |-> frags, initVal_ |-> i.this,
                   minVal_ |-> n.this, maxVal_ |-> x.this],
         iv |-> i.other, mn |-> n.other, mx |-> x.other]

\* The defaulted move constructor: frags_ is copied, each value is move
\* constructed.
SpecMoveConstruct(other) ==
    LET c == SpecCtor(other.frags_, other.initVal_, other.minVal_, other.maxVal_)
    IN  [this |-> c.this,
         other |-> [other EXCEPT !.initVal_ = c.iv, !.minVal_ = c.mn,
                                 !.maxVal_ = c.mx]]

\* The defaulted destructor: the three values are destroyed.
SpecDestroy(s, h) ==
    cleanup(s.initVal_, cleanup(s.minVal_, cleanup(s.maxVal_, h).h).h).h

\* The defaulted move assignment, member by member; same tells whether this
\* and other are one object.
SpecMoveAssign(this, other, same, h) ==
    LET I0 == <<this.initVal_, other.initVal_, this.minVal_, other.minVal_,
                this.maxVal_, other.maxVal_>>
        loc(k) == IF same THEN k ELSE k + 1
        r1 == MoveAssign(I0, h, 1, loc(1))
        r2 == MoveAssign(r1.I, r1.h, 3, loc(3))
        r3 == MoveAssign(r2.I, r2.h, 5, loc(5))
    IN  [this |-> [this EXCEPT !.frags_ = other.frags_, !.initVal_ = r3.I[1],
                               !.minVal_ = r3.I[3], !.maxVal_ = r3.I[5]],
         other |-> [other EXCEPT !.initVal_ = r3.I[2], !.minVal_ = r3.I[4],
                                 !.maxVal_ = r3.I[6]],
         h |-> r3.h]

\* Fault: the initial value's copy not tested.
AllCopied_minMax(init, min, max) == min.ok /\ max.ok

\* init.has_value() && min.has_value() && max.has_value().
AllCopied(init, min, max) == init.ok /\ min.ok /\ max.ok

\* Fault: permission and format exchanged in the initialiser.
SpecFragments_permFirst(min, max, h, perm, reso) ==
    Fragments(perm, fromValueRange(min, max, h), reso, 0)

\* The Fragments initialiser of Spec::create.
SpecFragments(min, max, h, perm, reso) ==
    Fragments(fromValueRange(min, max, h), perm, reso, 0)

\* Spec::create( permission, resolution, optional<Value> && x 3 ): the Spec
\* is constructed, moved into the optional returned and destroyed; the three
\* optionals of the caller are destroyed on return.
SpecCreateMoved(perm, reso, init, min, max, h) ==
    IF AllCopied(init, min, max)
    THEN LET c == SpecCtor(SpecFragments(min.v, max.v, h, perm, reso),
                           init.v, min.v, max.v)
             m == SpecMoveConstruct(c.this)
             h1 == SpecDestroy(m.other, h)
             h2 == cleanup(c.mx, cleanup(c.mn, cleanup(c.iv, h1).h).h).h
         IN  [ok |-> TRUE, s |-> m.this, h |-> h2]
    ELSE LET hi == IF init.ok THEN cleanup(init.v, h).h ELSE h
             hn == IF min.ok THEN cleanup(min.v, hi).h ELSE hi
             hx == IF max.ok THEN cleanup(max.v, hn).h ELSE hn
         IN  [ok |-> FALSE, s |-> NoPropSpec, h |-> hx]

\* Spec::create( permission, resolution, Value const & x 3 ): three clones.
SpecCreateClone(perm, reso, iv, mn, mx, h, p1, p2, p3) ==
    LET ci == clone(iv, h, p1)
        cn == clone(mn, ci.h, p2)
        cx == clone(mx, cn.h, p3)
    IN  SpecCreateMoved(perm, reso, ci, cn, cx, cx.h)

\* Spec::create( permission, resolution, (data, size) x 3 ): three
\* Value::create.
SpecCreateBytes(perm, reso, ai, an, ax, h, p1, p2, p3) ==
    LET ci == create(h, ai.isNull, ai.buf, ai.size, p1)
        cn == create(ci.h, an.isNull, an.buf, an.size, p2)
        cx == create(cn.h, ax.isNull, ax.buf, ax.size, p3)
    IN  SpecCreateMoved(perm, reso, ci, cn, cx, cx.h)

\* The std::int32_t whose four bytes, lowest first, are b0 .. b3 (two's
\* complement: the top bit of b3 is the sign).
Int32Of(b0, b1, b2, b3) ==
    b0 + 256 * b1 + 65536 * b2 + 16777216 * (IF b3 >= 128 THEN b3 - 256 ELSE b3)

\* Fault: the top byte present extended into the bytes above it.
decodeNumericValue_signExtended(v, h) ==
    IF size(v) = 0 \/ size(v) > MAX_NUMERIC_SIZE THEN 0
    ELSE LET b == bytes(v, h)
             fill == IF b[Len(b)] >= 128 THEN 255 ELSE 0
             at(i) == IF i <= Len(b) THEN b[i] ELSE fill
         IN  Int32Of(at(1), at(2), at(3), at(4))

\* Spec::decodeNumericValue: memcpy of the bytes into the low bytes of a
\* zeroed std::int32_t (little-endian).
decodeNumericValue(v, h) ==
    IF size(v) = 0 \/ size(v) > MAX_NUMERIC_SIZE THEN 0
    ELSE LET b == bytes(v, h)
             at(i) == IF i <= Len(b) THEN b[i] ELSE 0
         IN  Int32Of(at(1), at(2), at(3), at(4))

\* Fault: no test for the empty candidate.
IsEmpty_never(sz) == FALSE

\* The first test of isWithinRange.
IsEmpty(sz) == sz = 0

\* Fault: the limit itself refused.
WithinSize_strict(sz, limit) == sz < limit

\* size <= MAX_..._SIZE.
WithinSize(sz, limit) == sz <= limit

\* Fault: every byte of a one-byte candidate taken for a boolean.
BoolValid_anyByte(sz, b) == sz = BOOL_SIZE

\* is_valid_size && ( is_false_value || is_true_value ) on bytes.at( 0U ).
BoolValid(sz, b) == sz = BOOL_SIZE /\ (b[1] = BOOL_FALSE \/ b[1] = BOOL_TRUE)

\* Fault: the upper end of the range not tested.
InRange_lowerOnly(min, n, max) == min <= n

\* ( min <= n ) && ( n <= max ) on std::int32_t.
InRange(min, n, max) == min <= n /\ n <= max

\* Spec::isWithinRange( v ).
isWithinRange(s, v, h) ==
    LET sz == size(v)
        b == bytes(v, h)
    IN  IF IsEmpty(sz) THEN FALSE
        ELSE IF format(s) = String THEN WithinSize(sz, MAX_STRING_SIZE)
        ELSE IF format(s) = BitSet THEN WithinSize(sz, MAX_BITSET_SIZE)
        ELSE IF format(s) = Boolean THEN BoolValid(sz, b)
        ELSE IF format(s) = Numeric
        THEN IF WithinSize(sz, MAX_NUMERIC_SIZE)
             THEN InRange(decodeNumericValue(s.minVal_, h), decodeNumericValue(v, h),
                          decodeNumericValue(s.maxVal_, h))
             ELSE FALSE
        ELSE FALSE

(***************************************************************************)
(* The record of the last call: the operation, its arguments (a is this or *)
(* the object made, b the other object) and what it returned.  peak is the *)
(* largest length of the run of successful sets of more than INLINE_SIZE   *)
(* bytes on object a that the call ends (0 when it ends none); out is the  *)
(* text or the bytes returned, n the number returned; perm, reso and oks   *)
(* are the permission and resolution given to Spec::create and whether     *)
(* each of its three copies was made.                                      *)
(***************************************************************************)
NoLast ==
    [op |-> "none", a |-> 0, b |-> 0, isNull |-> FALSE, buf |-> <<>>,
     size |-> 0, ans |-> FALSE, ord |-> "none", peak |-> 0, out |-> <<>>,
     n |-> 0, perm |-> 0, reso |-> 0, oks |-> <<>>]

Call(op, a, b) == [NoLast EXCEPT !.op = op, !.a = a, !.b = b]

NoArg == [isNull |-> FALSE, buf |-> <<>>, size |-> 0]

\* A thread: where it is in its call (idle, lock, body, unlock), the call,
\* the locks its SpinGuard has taken, and what the body returned; ptr is
\* the heap pointer a reader took (NULL for raw_data_).
IdleThread ==
    [pc |-> "idle", op |-> "none", a |-> 0, b |-> 0, arg |-> NoArg, k |-> 0,
     held |-> <<>>, ans |-> FALSE, ord |-> "none", out |-> <<>>, n |-> 0,
     ptr |-> 0]

Live(I) == {i \in DOMAIN I : I[i].live}

\* The arguments (data, size) of create and set: a buffer of Inputs with
\* its length, or a null pointer with a size of NullSizes.
Args ==
    { [isNull |-> FALSE, buf |-> d, size |-> Len(d)] : d \in Inputs }
        \cup { [isNull |-> TRUE, buf |-> <<>>, size |-> n] : n \in NullSizes }

(***************************************************************************)
(* Spec: one caller.  Every public operation takes and releases its locks  *)
(* within the call, so each call is one step.                              *)
(***************************************************************************)
Init ==
    /\ inst = [i \in Inst |-> NoValue]
    /\ heap = EmptyHeap
    /\ last = NoLast
    /\ thr = [t \in Threads |-> IdleThread]
    /\ pspec = NoSpecs
    /\ given = NoGiven

OpCreate(a, arg, p) ==
    /\ ~inst[a].live
    /\ p \in SetOutcomes(DefaultValue, heap, arg.isNull, arg.size)
    /\ LET r == create(StartOp(heap), arg.isNull, arg.buf, arg.size, p) IN
       /\ inst' = [inst EXCEPT ![a] = r.v]
       /\ heap' = r.h
       /\ last' = [Call("create", a, 0) EXCEPT !.isNull = arg.isNull,
                     !.buf = arg.buf, !.size = arg.size, !.ans = r.ok]
    /\ UNCHANGED <<thr, pspec, given>>

OpClone(a, b, p) ==
    /\ ~inst[a].live /\ inst[b].live
    /\ p \in SetOutcomes(DefaultValue, heap, FALSE, inst[b].size_)
    /\ LET r == clone(inst[b], StartOp(heap), p) IN
       /\ inst' = [inst EXCEPT ![a] = r.v]
       /\ heap' = r.h
       /\ last' = [Call("clone", a, b) EXCEPT !.ans = r.ok]
    /\ UNCHANGED <<thr, pspec, given>>

OpSet(a, arg, p) ==
    /\ inst[a].live
    /\ p \in SetOutcomes(inst[a], heap, arg.isNull, arg.size)
    /\ LET r == set(inst[a], StartOp(heap), arg.isNull, arg.buf, arg.size, p) IN
       /\ inst' = [inst EXCEPT ![a] = r.v]
       /\ heap' = r.h
       /\ last' = [Call("set", a, 0) EXCEPT !.isNull = arg.isNull,
                     !.buf = arg.buf, !.size = arg.size, !.ans = r.ans,
                     !.peak = IF ~(r.ans /\ arg.size > INLINE_SIZE) THEN 0
                              ELSE IF last.op = "set" /\ last.a = a
                                      /\ last.peak > arg.size
                              THEN last.peak ELSE arg.size]
    /\ UNCHANGED <<thr, pspec, given>>

OpMoveAssign(a, b) ==
    /\ inst[a].live /\ inst[b].live
    /\ LET r == MoveAssign(inst, StartOp(heap), a, b) IN
       /\ inst' = r.I
       /\ heap' = r.h
    /\ last' = Call("moveAssign", a, b)
    /\ UNCHANGED <<thr, pspec, given>>

OpMoveConstruct(a, b) ==
    /\ ~inst[a].live /\ inst[b].live
    /\ LET r == MoveConstruct(inst, StartOp(heap), a, b) IN
       /\ inst' = r.I
       /\ heap' = r.h
    /\ last' = Call("moveConstruct", a, b)
    /\ UNCHANGED <<thr, pspec, given>>

\* ~Value255.
OpDestroy(a) ==
    /\ inst[a].live
    /\ LET c == cleanup(inst[a], StartOp(heap)) IN
       /\ inst' = [inst EXCEPT ![a] = NoValue]
       /\ heap' = c.h
    /\ last' = Call("destroy", a, 0)
    /\ UNCHANGED <<thr, pspec, given>>

Next ==
    \/ \E a \in Slots, arg \in Args, p \in Addrs \cup {NULL} : OpCreate(a, arg, p)
    \/ \E a \in Slots, b \in Slots, p \in Addrs \cup {NULL} : OpClone(a, b, p)
    \/ \E a \in Slots, arg \in Args, p \in Addrs \cup {NULL} : OpSet(a, arg, p)
    \/ \E a \in Slots, b \in Slots : OpMoveAssign(a, b)
    \/ \E a \in Slots, b \in Slots : OpMoveConstruct(a, b)
    \/ \E a \in Slots : OpDestroy(a)

Spec == Init /\ [][Next]_vars

(***************************************************************************)
(* SpecConc: threads T1 and T2 call the public operations on the shared    *)
(* objects 1 and 2.  A call is the SpinGuard constructor (one lock() per    *)
(* step), the body under the locks, and the SpinGuard destructor (one      *)
(* unlock() per step).  T1 also makes object 3, by clone or by move        *)
(* construction, as a temporary: it is destroyed when the call has         *)
(* returned.                                                               *)
(***************************************************************************)
Shared == {1, 2}

Local == CHOOSE i \in Inst : i \notin Shared

Range(q) == {q[i] : i \in DOMAIN q}

\* The calls of set made by the threads.
ConcArgs ==
    { arg \in Args : \/ arg.isNull /\ arg.size = 1
                     \/ arg.buf = Ramp(1)
                     \/ arg.buf = Ramp(INLINE_SIZE + 1) }

\* SpinGuard( a, b ): the lock() calls of the constructor, in order.
SpinGuardLocks(a, b) == IF a = b THEN <<a>> ELSE <<a, b>>

\* Fault: the locks released in the order they were taken.
SpinGuardUnlocks_sameOrder(a, b) == IF a = b THEN <<a>> ELSE <<a, b>>

\* ~SpinGuard: the unlock() calls, in order.
SpinGuardUnlocks(a, b) == IF a = b THEN <<a>> ELSE <<b, a>>

\* Fault: the busy loop left whatever exchange returned.
Acquired_always(old) == TRUE

\* lock(): lock_.exchange( true ) returned false, which ends the busy loop.
Acquired(old) == old = FALSE

SingleOps == {"size", "bytes", "set", "clone"}

PairOps == {"eq", "cmp", "moveAssign"}

InitConc ==
    /\ inst = [i \in Inst |-> IF i \in Shared THEN DefaultValue ELSE NoValue]
    /\ heap = EmptyHeap
    /\ last = NoLast
    /\ thr = [t \in Threads |-> IdleThread]
    /\ pspec = NoSpecs
    /\ given = NoGiven

Enter(t, op, a, b, arg) ==
    thr' = [thr EXCEPT ![t] = [IdleThread EXCEPT !.pc = "lock", !.op = op,
                                  !.a = a, !.b = b, !.arg = arg, !.k = 1]]

CallSingle(t, op, a, arg) ==
    /\ thr[t].pc = "idle"
    /\ op \in SingleOps
    /\ a \in Shared
    /\ op = "clone" => t = "T1" /\ ~inst[Local].live
    /\ op # "set" => arg = NoArg
    /\ Enter(t, op, a, a, arg)
    /\ UNCHANGED <<inst, heap, last, pspec, given>>

CallPair(t, op, a, b) ==
    /\ thr[t].pc = "idle"
    /\ op \in PairOps
    /\ a \in Shared /\ b \in Shared
    /\ Enter(t, op, a, b, NoArg)
    /\ UNCHANGED <<inst, heap, last, pspec, given>>

\* The move constructor starts on a default-initialised object.
CallMoveConstruct(t, b) ==
    /\ thr[t].pc = "idle"
    /\ t = "T1" /\ ~inst[Local].live
    /\ b \in Shared
    /\ inst' = [inst EXCEPT ![Local] = DefaultValue]
    /\ Enter(t, "moveConstruct", Local, b, NoArg)
    /\ UNCHANGED <<heap, last, pspec, given>>

\* One turn of the busy loop of lock() on the next object of the guard.
Lock(t) ==
    /\ thr[t].pc = "lock"
    /\ LET locks == SpinGuardLocks(thr[t].a, thr[t].b)
           x == locks[thr[t].k]
       IN  /\ inst' = [inst EXCEPT ![x].lock_ = TRUE]
           /\ IF Acquired(inst[x].lock_)
              THEN thr' = [thr EXCEPT ![t].held = Append(@, x),
                              ![t].k = IF thr[t].k = Len(locks) THEN 1 ELSE @ + 1,
                              ![t].pc = IF thr[t].k = Len(locks) THEN "body" ELSE @]
              ELSE UNCHANGED thr
    /\ UNCHANGED <<heap, last, pspec, given>>

\* The outcomes of heap_caps_malloc open to the body of thread t.
BodyOutcomes(t) ==
    LET c == thr[t] IN
    IF c.op = "set" THEN SetOutcomes(inst[c.a], heap, c.arg.isNull, c.arg.size)
    ELSE IF c.op = "clone"
    THEN SetOutcomes(DefaultValue, heap, FALSE, inst[c.a].size_)
    ELSE {NULL}

BodyDone(t, ans, ord, out, n) ==
    thr' = [thr EXCEPT ![t].pc = "unlock", ![t].k = 1, ![t].ans = ans,
                       ![t].ord = ord, ![t].out = out, ![t].n = n]

\* The body of the call of thread t, between the guard's constructor and
\* its destructor.
Body(t, p) ==
    /\ thr[t].pc = "body"
    /\ p \in BodyOutcomes(t)
    /\ LET c == thr[t]
           h == StartOp(heap)
       IN  CASE c.op = "size" ->
                  /\ BodyDone(t, FALSE, "none", <<>>, size(inst[c.a]))
                  /\ UNCHANGED <<inst, heap>>
             [] c.op = "bytes" ->
                  /\ BodyDone(t, FALSE, "none", bytes(inst[c.a], heap), 0)
                  /\ UNCHANGED <<inst, heap>>
             [] c.op = "eq" ->
                  /\ BodyDone(t, Equals(inst, heap, c.a, c.b), "none", <<>>, 0)
                  /\ UNCHANGED <<inst, heap>>
             [] c.op = "cmp" ->
                  /\ BodyDone(t, FALSE, Compare(inst, heap, c.a, c.b), <<>>, 0)
                  /\ UNCHANGED <<inst, heap>>
             [] c.op = "set" ->
                  LET r == set(inst[c.a], h, c.arg.isNull, c.arg.buf, c.arg.size, p)
                  IN  /\ inst' = [inst EXCEPT ![c.a] = r.v]
                      /\ heap' = r.h
                      /\ BodyDone(t, r.ans, "none", <<>>, 0)
             [] c.op = "clone" ->
                  LET r == clone(inst[c.a], h, p)
                  IN  /\ inst' = [inst EXCEPT ![Local] = r.v]
                      /\ heap' = r.h
                      /\ BodyDone(t, r.ok, "none", <<>>, 0)
             [] c.op = "moveAssign" ->
                  LET r == MoveAssign(inst, h, c.a, c.b)
                  IN  /\ inst' = r.I
                      /\ heap' = r.h
                      /\ BodyDone(t, FALSE, "none", <<>>, 0)
             [] c.op = "moveConstruct" ->
                  LET r == MoveConstruct(inst, h, c.a, c.b)
                  IN  /\ inst' = [r.I EXCEPT ![c.a].lock_ = inst[c.a].lock_]
                      /\ heap' = r.h
                      /\ BodyDone(t, FALSE, "none", <<>>, 0)
    /\ UNCHANGED <<last, pspec, given>>

\* One unlock() of the guard's destructor; the last one returns.
Unlock(t) ==
    /\ thr[t].pc = "unlock"
    /\ LET unlocks == SpinGuardUnlocks(thr[t].a, thr[t].b)
           x == unlocks[thr[t].k]
       IN  /\ inst' = [inst EXCEPT ![x].lock_ = FALSE]
           /\ thr' = [thr EXCEPT ![t] =
                  IF thr[t].k < Len(unlocks)
                  THEN [@ EXCEPT !.k = @ + 1,
                                 !.held = SelectSeq(@, LAMBDA y : y # x)]
                  ELSE IF thr[t].op \in {"clone", "moveConstruct"} /\ inst[Local].live
                  THEN [IdleThread EXCEPT !.pc = "drop"]
                  ELSE IdleThread]
    /\ UNCHANGED <<heap, last, pspec, given>>

\* The temporary goes out of scope: ~Value255 takes no lock.
DestroyLocal(t) ==
    /\ thr[t].pc = "drop"
    /\ inst[Local].live
    /\ LET c == cleanup(inst[Local], StartOp(heap)) IN
       /\ inst' = [inst EXCEPT ![Local] = NoValue]
       /\ heap' = c.h
    /\ thr' = [thr EXCEPT ![t] = IdleThread]
    /\ UNCHANGED <<last, pspec, given>>

NextConc ==
    \/ \E t \in Threads, op \in SingleOps, a \in Shared, arg \in ConcArgs \cup {NoArg} :
          CallSingle(t, op, a, arg)
    \/ \E t \in Threads, op \in PairOps, a \in Shared, b \in Shared : CallPair(t, op, a, b)
    \/ \E t \in Threads, b \in Shared : CallMoveConstruct(t, b)
    \/ \E t \in Threads : Lock(t)
    \/ \E t \in Threads, p \in Addrs \cup {NULL} : Body(t, p)
    \/ \E t \in Threads : Unlock(t)
    \/ \E t \in Threads : DestroyLocal(t)

SpecConc == InitConc /\ [][NextConc]_vars

(***************************************************************************)
(* SpecCmp: objects 1, 2 and 3 hold values built by create (one of them in *)
(* a block reused by a later, shorter set); the caller applies == and <=>  *)
(* to every ordered pair, an object and itself included, and str to every  *)
(* object.  The heap has room for one block per object.                    *)
(***************************************************************************)
\* How a value is built: the buffers given to create and then to set.
CmpBuilds ==
    { << <<>> >>, << <<1>> >>, << <<255>> >>, << <<1, 0>> >>, << <<1, 1>> >>,
      << <<0, 255>> >>, << Ramp(INLINE_SIZE + 1) >>,
      << [i \in 1..(INLINE_SIZE + 1) |-> IF i = 1 THEN 255 ELSE i] >>,
      << [i \in 1..(INLINE_SIZE + 1) |-> IF i = INLINE_SIZE + 1 THEN 255 ELSE i] >>,
      << Ramp(INLINE_SIZE + 2),
         [i \in 1..(INLINE_SIZE + 1) |-> IF i = INLINE_SIZE + 1 THEN 255 ELSE i] >> }

\* create( b[1] ) with its block at p, then set( b[2] ) if there is one.
Build(h, b, p) ==
    LET c == create(h, FALSE, b[1], Len(b[1]), p)
        s == set(c.v, c.h, FALSE, b[Len(b)], Len(b[Len(b)]), NULL)
    IN  IF Len(b) = 1 THEN [v |-> c.v, h |-> c.h] ELSE [v |-> s.v, h |-> s.h]

InitCmp ==
    /\ \E b1 \in CmpBuilds, b2 \in CmpBuilds, b3 \in CmpBuilds :
          LET r1 == Build(HeapOf(Inst), b1, 1)
              r2 == Build(r1.h, b2, 2)
              r3 == Build(r2.h, b3, 3)
          IN  /\ inst = [i \in Inst |-> IF i = 1 THEN r1.v
                                        ELSE IF i = 2 THEN r2.v ELSE r3.v]
              /\ heap = StartOp(r3.h)
    /\ last = NoLast
    /\ thr = [t \in Threads |-> IdleThread]
    /\ pspec = NoSpecs
    /\ given = NoGiven

OpEquals(a, b) ==
    /\ inst[a].live /\ inst[b].live
    /\ last' = [Call("eq", a, b) EXCEPT !.ans = Equals(inst, heap, a, b)]
    /\ UNCHANGED <<inst, heap, thr, pspec, given>>

OpCompare(a, b) ==
    /\ inst[a].live /\ inst[b].live
    /\ last' = [Call("cmp", a, b) EXCEPT !.ord = Compare(inst, heap, a, b)]
    /\ UNCHANGED <<inst, heap, thr, pspec, given>>

OpStr(a) ==
    /\ inst[a].live
    /\ last' = [Call("str", a, 0) EXCEPT !.out = str(inst[a], heap)]
    /\ UNCHANGED <<inst, heap, thr, pspec, given>>

NextCmp ==
    \/ \E a \in Inst, b \in Inst : OpEquals(a, b)
    \/ \E a \in Inst, b \in Inst : OpCompare(a, b)
    \/ \E a \in Inst : OpStr(a)

SpecCmp == InitCmp /\ [][NextCmp]_vars

(***************************************************************************)
(* SpecProp: objects 1, 2 and 3 are the initial, minimum and maximum       *)
(* values a caller holds.  The caller makes Specs from them (by the Value  *)
(* overload of Spec::create or, passing their bytes, by the (data, size)   *)
(* overload), moves and destroys the Specs, and derives formats from pairs *)
(* of the values.  The permission and the resolution of a run are the two  *)
(* of given.                                                               *)
(***************************************************************************)
\* The (initial, minimum, maximum) bytes the caller holds.
PropCases ==
    { << <<>>, <<>>, <<>> >>,
      << Ramp(INLINE_SIZE + 1), <<>>, <<>> >>,
      << <<1>>, <<>>, <<15>> >>,
      << <<0>>, <<>>, Ramp(INLINE_SIZE + 1) >>,
      << <<0>>, <<0>>, <<1>> >>,
      << <<0>>, <<1>>, <<1>> >>,
      << <<0>>, <<0>>, <<2>> >>,
      << <<1>>, <<1>>, <<>> >>,
      << <<5>>, <<0>>, <<10>> >>,
      << <<5>>, <<10>>, <<0>> >>,
      << <<0, 0>>, <<0, 0>>, <<255, 0>> >>,
      << <<255, 255, 255, 255>>, <<0, 0, 0, 128>>, <<255, 255, 255, 127>> >>,
      << Ramp(INLINE_SIZE + 1), <<0>>, <<10>> >> }

\* The addresses of SpecProp and SpecRange: one block per value of the
\* caller and of each Spec.
PropAddrs == 1..(Cardinality(Inst) * (1 + Cardinality(PSlots)))

\* The allocator of SpecProp: the lowest free address, or NULL when it
\* fails.
MallocChoice(h, fail) ==
    LET free == HeapAddrs(h) \ Allocated(h)
    IN  IF fail \/ free = {} THEN NULL
        ELSE CHOOSE p \in free : \A q \in free : p <= q

\* The cases the caller runs with every permission and resolution: one per
\* format.  The other cases run with the highest of both.
EveryGivenCases ==
    { << <<>>, <<>>, <<>> >>,
      << <<1>>, <<>>, <<15>> >>,
      << <<0>>, <<0>>, <<1>> >>,
      << <<5>>, <<0>>, <<10>> >> }

GivenOf(c) ==
    IF c \in EveryGivenCases
    THEN [perm : PermissionKinds, reso : ResolutionKinds]
    ELSE { [perm |-> 2^PERMISSION_KIND_BITS - 1, reso |-> 2^RESOLUTION_KIND_BITS - 1] }

InitProp ==
    /\ \E c \in PropCases :
       \E r1 \in {create(HeapOf(PropAddrs), FALSE, c[1], Len(c[1]), 1)} :
       \E r2 \in {create(r1.h, FALSE, c[2], Len(c[2]), 2)} :
       \E r3 \in {create(r2.h, FALSE, c[3], Len(c[3]), 3)} :
          /\ inst = [i \in Inst |-> IF i = 1 THEN r1.v
                                    ELSE IF i = 2 THEN r2.v ELSE r3.v]
          /\ heap = StartOp(r3.h)
          /\ given \in GivenOf(c)
    /\ last = NoLast
    /\ thr = [t \in Threads |-> IdleThread]
    /\ pspec = NoSpecs

\* The argument for value i of the (data, size) overload: its bytes and
\* size, the data pointer being null when i is k.
BytesArg(i, k) ==
    [isNull |-> i = k, buf |-> IF i = k THEN <<>> ELSE bytes(inst[i], heap),
     size |-> size(inst[i])]

\* The allocations that can fail: those of values above INLINE_SIZE.
FailChoices ==
    { f \in [1..3 -> BOOLEAN] : \A i \in 1..3 : f[i] => isHeapAllocated(inst[i]) }

\* The Value overload of Spec::create makes Spec s; p1, p2 and p3 are what
\* heap_caps_malloc returns to the three clones.
PCreateClone(s, f) ==
    /\ ~pspec[s].live
    /\ f \in FailChoices
    /\ \E h \in {StartOp(heap)} :
       \E p1 \in {MallocChoice(h, f[1])} :
       \E c1 \in {clone(inst[1], h, p1)} :
       \E p2 \in {MallocChoice(c1.h, f[2])} :
       \E c2 \in {clone(inst[2], c1.h, p2)} :
       \E p3 \in {MallocChoice(c2.h, f[3])} :
       \E c3 \in {clone(inst[3], c2.h, p3)} :
       \E r \in {SpecCreateClone(given.perm, given.reso, inst[1], inst[2], inst[3],
                                 h, p1, p2, p3)} :
          /\ pspec' = [pspec EXCEPT ![s] = r.s]
          /\ heap' = r.h
          /\ last' = [Call("specCreate", s, 0) EXCEPT !.ans = r.ok,
                        !.perm = given.perm, !.reso = given.reso,
                        !.oks = <<c1.ok, c2.ok, c3.ok>>]
    /\ UNCHANGED <<inst, thr, given>>

\* The (data, size) overload of Spec::create makes Spec s; the data pointer
\* of argument k is null.
PCreateBytes(s, k, f) ==
    /\ ~pspec[s].live
    /\ f \in FailChoices
    /\ \E h \in {StartOp(heap)} :
       \E ai \in {BytesArg(1, k)}, an \in {BytesArg(2, k)}, ax \in {BytesArg(3, k)} :
       \E p1 \in {MallocChoice(h, f[1])} :
       \E c1 \in {create(h, ai.isNull, ai.buf, ai.size, p1)} :
       \E p2 \in {MallocChoice(c1.h, f[2])} :
       \E c2 \in {create(c1.h, an.isNull, an.buf, an.size, p2)} :
       \E p3 \in {MallocChoice(c2.h, f[3])} :
       \E c3 \in {create(c2.h, ax.isNull, ax.buf, ax.size, p3)} :
       \E r \in {SpecCreateBytes(given.perm, given.reso, ai, an, ax, h, p1, p2, p3)} :
          /\ pspec' = [pspec EXCEPT ![s] = r.s]
          /\ heap' = r.h
          /\ last' = [Call("specCreate", s, 0) EXCEPT !.ans = r.ok,
                        !.perm = given.perm, !.reso = given.reso,
                        !.oks = <<c1.ok, c2.ok, c3.ok>>, !.n = k]
    /\ UNCHANGED <<inst, thr, given>>

PMoveConstruct(s, t) ==
    /\ ~pspec[s].live /\ pspec[t].live
    /\ LET m == SpecMoveConstruct(pspec[t]) IN
          pspec' = [pspec EXCEPT ![s] = m.this, ![t] = m.other]
    /\ heap' = StartOp(heap)
    /\ last' = Call("specMoveConstruct", s, t)
    /\ UNCHANGED <<inst, thr, given>>

PMoveAssign(s, t) ==
    /\ pspec[s].live /\ pspec[t].live
    /\ LET m == SpecMoveAssign(pspec[s], pspec[t], s = t, StartOp(heap)) IN
          /\ pspec' = IF s = t THEN [pspec EXCEPT ![s] = m.this]
                      ELSE [pspec EXCEPT ![s] = m.this, ![t] = m.other]
          /\ heap' = m.h
    /\ last' = Call("specMoveAssign", s, t)
    /\ UNCHANGED <<inst, thr, given>>

PDestroy(s) ==
    /\ pspec[s].live
    /\ pspec' = [pspec EXCEPT ![s] = NoPropSpec]
    /\ heap' = SpecDestroy(pspec[s], StartOp(heap))
    /\ last' = Call("specDestroy", s, 0)
    /\ UNCHANGED <<inst, thr, given>>

OpFromValueRange(a, b) ==
    /\ inst[a].live /\ inst[b].live
    /\ last' = [Call("fromValueRange", a, b) EXCEPT
                  !.n = fromValueRange(inst[a], inst[b], heap)]
    /\ UNCHANGED <<inst, heap, thr, pspec, given>>

NextProp ==
    \/ \E s \in PSlots, f \in [1..3 -> BOOLEAN] : PCreateClone(s, f)
    \/ \E s \in PSlots, k \in 0..3, f \in [1..3 -> BOOLEAN] : PCreateBytes(s, k, f)
    \/ \E s \in PSlots, t \in PSlots : PMoveConstruct(s, t)
    \/ \E s \in PSlots, t \in PSlots : PMoveAssign(s, t)
    \/ \E s \in PSlots : PDestroy(s)
    \/ \E a \in Inst, b \in Inst : OpFromValueRange(a, b)

SpecProp == InitProp /\ [][NextProp]_vars

(***************************************************************************)
(* SpecRange: Spec 1 was built by the (data, size) overload of create from *)
(* one of the cases of SpecProp and object 1 is a candidate value; the     *)
(* caller asks whether the candidate is within the range of the Spec, and  *)
(* the candidate is decoded.                                               *)
(***************************************************************************)
\* The bytes of the candidates.
Candidates ==
    { <<>>, <<0>>, <<1>>, <<2>>, <<5>>, <<10>>, <<11>>, <<255>>, <<0, 1>>,
      <<1, 2, 3>>, <<0, 0, 0, 0>>, <<255, 255, 255, 127>>, <<0, 0, 0, 128>>,
      <<255, 255, 255, 255>>, Ramp(INLINE_SIZE + 1),
      [i \in 1..MAX_STRING_SIZE |-> 65], [i \in 1..(MAX_STRING_SIZE + 1) |-> 65] }

\* The cases of SpecRange: those of SpecProp and a Numeric Spec whose
\* minimum is longer than MAX_NUMERIC_SIZE.
RangeCases ==
    PropCases \cup { << <<5>>, Ramp(INLINE_SIZE + 1), <<10>> >> }

InitRange ==
    /\ \E c \in RangeCases, v \in Candidates :
       \E r1 \in {create(HeapOf(PropAddrs), FALSE, v, Len(v), 1)} :
       \E r \in {SpecCreateBytes(2^PERMISSION_KIND_BITS - 1, 0,
                                 [isNull |-> FALSE, buf |-> c[1], size |-> Len(c[1])],
                                 [isNull |-> FALSE, buf |-> c[2], size |-> Len(c[2])],
                                 [isNull |-> FALSE, buf |-> c[3], size |-> Len(c[3])],
                                 r1.h, 2, 3, 4)} :
          /\ inst = [i \in Inst |-> IF i = 1 THEN r1.v ELSE NoValue]
          /\ pspec = [s \in PSlots |-> IF s = 1 THEN r.s ELSE NoPropSpec]
          /\ heap = StartOp(r.h)
    /\ last = NoLast
    /\ thr = [t \in Threads |-> IdleThread]
    /\ given = [perm |-> 2^PERMISSION_KIND_BITS - 1, reso |-> 0]

OpIsWithinRange(s, a) ==
    /\ pspec[s].live /\ inst[a].live
    /\ last' = [Call("isWithinRange", s, a) EXCEPT
                  !.ans = isWithinRange(pspec[s], inst[a], heap)]
    /\ UNCHANGED <<inst, heap, thr, pspec, given>>

OpDecode(a) ==
    /\ inst[a].live
    /\ last' = [Call("decodeNumericValue", a, 0) EXCEPT
                  !.n = decodeNumericValue(inst[a], heap)]
    /\ UNCHANGED <<inst, heap, thr, pspec, given>>

NextRange ==
    \/ \E s \in PSlots, a \in Inst : OpIsWithinRange(s, a)
    \/ \E a \in Inst : OpDecode(a)

SpecRange == InitRange /\ [][NextRange]_vars

(***************************************************************************)
(* SpecReso: the caller makes a Resolution::Kind from a raw byte and asks  *)
(* for its shift, its coefficient and its scale factor.                    *)
(***************************************************************************)
InitReso ==
    /\ inst = [i \in Inst |-> NoValue]
    /\ heap = EmptyHeap
    /\ last = NoLast
    /\ thr = [t \in Threads |-> IdleThread]
    /\ pspec = NoSpecs
    /\ given = NoGiven

OpResolutionFromRaw(raw) ==
    /\ given' = [given EXCEPT !.reso = Resolution_fromRaw(raw)]
    /\ last' = [Call("Resolution::fromRaw", raw, 0) EXCEPT !.n = Resolution_fromRaw(raw)]
    /\ UNCHANGED <<inst, heap, thr, pspec>>

OpShiftOf ==
    /\ last' = [Call("shiftOf", given.reso, 0) EXCEPT !.n = shiftOf(given.reso)]
    /\ UNCHANGED <<inst, heap, thr, pspec, given>>

OpCoeffOf ==
    /\ last' = [Call("coeffOf", given.reso, 0) EXCEPT !.n = coeffOf(given.reso)]
    /\ UNCHANGED <<inst, heap, thr, pspec, given>>

OpScaleFactorOf ==
    /\ last' = [Call("scaleFactorOf", given.reso, 0) EXCEPT
                  !.out = scaleFactorOf(given.reso)]
    /\ UNCHANGED <<inst, heap, thr, pspec, given>>

NextReso ==
    \/ \E raw \in 0..255 : OpResolutionFromRaw(raw)
    \/ OpShiftOf
    \/ OpCoeffOf
    \/ OpScaleFactorOf

SpecReso == InitReso /\ [][NextReso]_vars

(***************************************************************************)
(* SpecSnap: thread T1 reads the shared objects 1 and 2 (size, bytes, str, *)
(* clone) while thread T2 changes them (set, move assignment).  The bodies *)
(* are taken in two steps.  A reader first takes the location of the data  *)
(* (data_unlocked(), isHeapAllocated()) and the size, then reads the bytes *)
(* there.  set first does everything up to its last assignment, then       *)
(* assigns size_; the move assignment first cleans up this and copies      *)
(* size_ and raw_data_, then resets other.                                 *)
(***************************************************************************)
ReadOps == {"size", "bytes", "str", "clone"}

WriteOps == {"set", "moveAssign"}

SnapCallRead(op, a) ==
    /\ thr["T1"].pc = "idle"
    /\ op \in ReadOps
    /\ op = "clone" => ~inst[Local].live
    /\ Enter("T1", op, a, a, NoArg)
    /\ UNCHANGED <<inst, heap, last, pspec, given>>

SnapCallSet(a, arg) ==
    /\ thr["T2"].pc = "idle"
    /\ Enter("T2", "set", a, a, arg)
    /\ UNCHANGED <<inst, heap, last, pspec, given>>

SnapCallMoveAssign(a, b) ==
    /\ thr["T2"].pc = "idle"
    /\ Enter("T2", "moveAssign", a, b, NoArg)
    /\ UNCHANGED <<inst, heap, last, pspec, given>>

\* The sz bytes at the location a reader took: the block at ptr, or
\* raw_data_ of v.
ReadAt(v, h, ptr, sz) ==
    IF ptr # NULL THEN HeapRead(h, ptr, sz)
    ELSE [i \in 1..sz |-> IF i <= INLINE_SIZE THEN v.raw_data_[i] ELSE Garbage]

\* size() returns size_; bytes(), str() and clone() take the location of
\* the data, clone() also the size.
ReadBegin(t) ==
    /\ thr[t].pc = "body" /\ thr[t].op \in ReadOps
    /\ LET v == inst[thr[t].a] IN
       IF thr[t].op = "size"
       THEN BodyDone(t, FALSE, "none", <<>>, size_unlocked(v))
       ELSE thr' = [thr EXCEPT ![t].pc = "body2", ![t].n = size_unlocked(v),
                               ![t].ptr = IF isHeapAllocated(v) THEN heapPointer(v)
                                          ELSE NULL]
    /\ UNCHANGED <<inst, heap, last, pspec, given>>

\* bytes() and str() read size_ bytes at the location taken; clone() gives
\* the location and the size taken to create.
ReadEnd(t, p) ==
    /\ thr[t].pc = "body2" /\ thr[t].op \in ReadOps
    /\ LET c == thr[t]
           v == inst[c.a]
       IN  CASE c.op = "bytes" ->
                  /\ p = NULL
                  /\ thr' = [thr EXCEPT ![t].pc = "unlock", ![t].k = 1, ![t].ptr = 0,
                                ![t].out = ReadAt(v, heap, c.ptr, v.size_), ![t].n = 0]
                  /\ UNCHANGED <<inst, heap>>
             [] c.op = "str" ->
                  /\ p = NULL
                  /\ thr' = [thr EXCEPT ![t].pc = "unlock", ![t].k = 1, ![t].ptr = 0,
                                ![t].out = <<"[", " ">>
                                   \o StrLoop(ReadAt(v, heap, c.ptr, v.size_), v.size_, 0)
                                   \o <<" ", "]">>,
                                ![t].n = 0]
                  /\ UNCHANGED <<inst, heap>>
             [] c.op = "clone" ->
                  /\ p \in SetOutcomes(DefaultValue, heap, FALSE, c.n)
                  /\ \E r \in {create(StartOp(heap), FALSE, ReadAt(v, heap, c.ptr, c.n),
                                      c.n, p)} :
                        /\ inst' = [inst EXCEPT ![Local] = r.v]
                        /\ heap' = r.h
                        /\ thr' = [thr EXCEPT ![t].pc = "unlock", ![t].k = 1,
                                      ![t].ptr = 0, ![t].ans = r.ok, ![t].n = 0]
    /\ UNCHANGED <<last, pspec, given>>

WriteBegin(t, p) ==
    /\ thr[t].pc = "body" /\ thr[t].op \in WriteOps
    /\ LET c == thr[t] IN
       IF c.op = "set"
       THEN /\ p \in SetOutcomes(inst[c.a], heap, c.arg.isNull, c.arg.size)
            /\ \E r \in {set_beforeSize(inst[c.a], StartOp(heap), c.arg.isNull,
                                        c.arg.buf, c.arg.size, p)} :
                  /\ inst' = [inst EXCEPT ![c.a] = r.v]
                  /\ heap' = r.h
                  /\ thr' = [thr EXCEPT ![t].pc = "body2", ![t].ans = r.ans]
       ELSE /\ p = NULL
            /\ \E r \in {MoveAssign_beforeReset(inst, StartOp(heap), c.a, c.b)} :
                  /\ inst' = r.I
                  /\ heap' = r.h
                  /\ thr' = [thr EXCEPT ![t].pc = "body2"]
    /\ UNCHANGED <<last, pspec, given>>

\* size_ = size of set; the reset of other of moveFrom.
WriteEnd(t) ==
    /\ thr[t].pc = "body2" /\ thr[t].op \in WriteOps
    /\ LET c == thr[t] IN
       IF c.op = "set"
       THEN inst' = [inst EXCEPT ![c.a].size_ = IF c.ans THEN c.arg.size ELSE @]
       ELSE inst' = [inst EXCEPT ![c.b] =
                        IF SameInstance(c.a, c.b) THEN @
                        ELSE [@ EXCEPT !.raw_data_ = ZeroRaw, !.size_ = 0]]
    /\ thr' = [thr EXCEPT ![t].pc = "unlock", ![t].k = 1]
    /\ UNCHANGED <<heap, last, pspec, given>>

NextSnap ==
    \/ \E op \in ReadOps, a \in Shared : SnapCallRead(op, a)
    \/ \E a \in Shared, arg \in ConcArgs : SnapCallSet(a, arg)
    \/ \E a \in Shared, b \in Shared : SnapCallMoveAssign(a, b)
    \/ \E t \in Threads : Lock(t)
    \/ \E t \in Threads : ReadBegin(t)
    \/ \E t \in Threads, p \in Addrs \cup {NULL} : ReadEnd(t, p)
    \/ \E t \in Threads, p \in Addrs \cup {NULL} : WriteBegin(t, p)
    \/ \E t \in Threads : WriteEnd(t)
    \/ \E t \in Threads : Unlock(t)
    \/ \E t \in Threads : DestroyLocal(t)

SpecSnap == InitConc /\ [][NextSnap]_vars

(***************************************************************************)
(* SpecRace: Spec 1 was built by create and object 1 is a candidate, a     *)
(* MutableValue255.  Thread T1 calls isWithinRange on the candidate, one   *)
(* step per call it makes of size() and bytes() of the candidate (each of  *)
(* them runs under the lock of the candidate); thread T2 calls set on the  *)
(* candidate.  In thr["T1"], n is the size and out are the bytes the call  *)
(* holds, ord tells what went wrong.                                       *)
(***************************************************************************)
RaceCases ==
    { << <<>>, <<>>, <<>> >>,
      << <<1>>, <<>>, <<15>> >>,
      << <<0>>, <<0>>, <<1>> >>,
      << <<5>>, <<0>>, <<10>> >> }

RaceCandidates == { <<>>, <<1>>, Ramp(INLINE_SIZE + 1) }

InitRace ==
    /\ \E c \in RaceCases, v \in RaceCandidates :
       \E r1 \in {create(HeapOf(PropAddrs), FALSE, v, Len(v), 1)} :
       \E r \in {SpecCreateBytes(2^PERMISSION_KIND_BITS - 1, 0,
                                 [isNull |-> FALSE, buf |-> c[1], size |-> Len(c[1])],
                                 [isNull |-> FALSE, buf |-> c[2], size |-> Len(c[2])],
                                 [isNull |-> FALSE, buf |-> c[3], size |-> Len(c[3])],
                                 r1.h, 2, 3, 4)} :
          /\ inst = [i \in Inst |-> IF i = 1 THEN r1.v ELSE NoValue]
          /\ pspec = [s \in PSlots |-> IF s = 1 THEN r.s ELSE NoPropSpec]
          /\ heap = StartOp(r.h)
    /\ last = NoLast
    /\ thr = [t \in Threads |-> IdleThread]
    /\ given = [perm |-> 2^PERMISSION_KIND_BITS - 1, reso |-> 0]

\* T2: MutableValue255::set on the candidate, from lock to unlock.
RaceSet(arg, fail) ==
    /\ arg \in ConcArgs
    /\ fail => CallsMalloc(inst[1], arg.isNull, arg.size)
    /\ \E h \in {StartOp(heap)} :
       \E p \in {MallocChoice(HeapAtMalloc(inst[1], h), fail)} :
       \E r \in {set(inst[1], h, arg.isNull, arg.buf, arg.size, p)} :
          /\ inst' = [inst EXCEPT ![1] = r.v]
          /\ heap' = r.h
    /\ UNCHANGED <<last, thr, pspec, given>>

\* T1 calls pspec[1].isWithinRange( inst[1] ).
IwCall ==
    /\ thr["T1"].pc = "idle"
    /\ thr' = [thr EXCEPT !["T1"] = [IdleThread EXCEPT !.pc = "iwSize",
                                        !.op = "isWithinRange", !.a = 1, !.b = 1]]
    /\ UNCHANGED <<inst, heap, last, pspec, given>>

IwReturn(ans) ==
    thr' = [thr EXCEPT !["T1"].pc = "iwDone", !["T1"].ans = ans]

\* size = v.size(); an empty candidate is refused.
IwSize ==
    /\ thr["T1"].pc = "iwSize"
    /\ IF IsEmpty(size(inst[1]))
       THEN IwReturn(FALSE)
       ELSE thr' = [thr EXCEPT !["T1"].pc = "iwBytes", !["T1"].n = size(inst[1])]
    /\ UNCHANGED <<inst, heap, last, pspec, given>>

\* bytes = v.bytes() and the switch on format(): bytes.at( 0U ) throws when
\* bytes is empty, which ends a noexcept function by std::terminate.
IwBytes ==
    /\ thr["T1"].pc = "iwBytes"
    /\ LET sz == thr["T1"].n
           b == bytes(inst[1], heap)
           f == format(pspec[1])
       IN  IF f = String THEN IwReturn(WithinSize(sz, MAX_STRING_SIZE))
           ELSE IF f = BitSet THEN IwReturn(WithinSize(sz, MAX_BITSET_SIZE))
           ELSE IF f = Boolean
           THEN IF Len(b) = 0
                THEN thr' = [thr EXCEPT !["T1"].pc = "terminated", !["T1"].out = b,
                                        !["T1"].ord = "out_of_range"]
                ELSE thr' = [thr EXCEPT !["T1"].pc = "iwDone", !["T1"].out = b,
                                        !["T1"].ans = BoolValid(sz, b)]
           ELSE IF WithinSize(sz, MAX_NUMERIC_SIZE)
           THEN thr' = [thr EXCEPT !["T1"].pc = "dnSize", !["T1"].out = b]
           ELSE IwReturn(FALSE)
    /\ UNCHANGED <<inst, heap, last, pspec, given>>

\* The verdict of the Numeric case for the decoded candidate n.
NumericVerdict(n) ==
    InRange(decodeNumericValue(pspec[1].minVal_, heap), n,
            decodeNumericValue(pspec[1].maxVal_, heap))

\* decodeNumericValue( v ): the test v.size() == 0U.
DnSizeEmpty ==
    /\ thr["T1"].pc = "dnSize"
    /\ IF size(inst[1]) = 0
       THEN IwReturn(NumericVerdict(0))
       ELSE thr' = [thr EXCEPT !["T1"].pc = "dnSizeMax"]
    /\ UNCHANGED <<inst, heap, last, pspec, given>>

\* decodeNumericValue( v ): the test v.size() > MAX_NUMERIC_SIZE, a second
\* call of size().
DnSizeMax ==
    /\ thr["T1"].pc = "dnSizeMax"
    /\ IF size(inst[1]) > MAX_NUMERIC_SIZE
       THEN IwReturn(NumericVerdict(0))
       ELSE thr' = [thr EXCEPT !["T1"].pc = "dnBytes", !["T1"].n = size(inst[1])]
    /\ UNCHANGED <<inst, heap, last, pspec, given>>

\* decodeNumericValue( v ): bytes = v.bytes() and the memcpy of
\* bytes.size() bytes onto val.  More than sizeof( val ) bytes overrun val:
\* the call goes on with the low bytes or the program stops.
DnBytes(stops) ==
    /\ thr["T1"].pc = "dnBytes"
    /\ LET b == bytes(inst[1], heap)
           at(i) == IF i <= Len(b) THEN b[i] ELSE 0
           val == Int32Of(at(1), at(2), at(3), at(4))
       IN  IF Len(b) > MAX_NUMERIC_SIZE
           THEN IF stops
                THEN thr' = [thr EXCEPT !["T1"].pc = "terminated", !["T1"].out = b,
                                        !["T1"].ord = "overflow"]
                ELSE thr' = [thr EXCEPT !["T1"].pc = "iwDone", !["T1"].out = b,
                                        !["T1"].ord = "overflow",
                                        !["T1"].ans = NumericVerdict(val)]
           ELSE /\ ~stops
                /\ thr' = [thr EXCEPT !["T1"].pc = "iwDone", !["T1"].out = b,
                                      !["T1"].ans = NumericVerdict(val)]
    /\ UNCHANGED <<inst, heap, last, pspec, given>>

\* isWithinRange returns to T1.
IwDone ==
    /\ thr["T1"].pc = "iwDone"
    /\ last' = [Call("isWithinRange", 1, 1) EXCEPT !.ans = thr["T1"].ans]
    /\ thr' = [thr EXCEPT !["T1"] = IdleThread]
    /\ UNCHANGED <<inst, heap, pspec, given>>

NextRace ==
    \/ \E arg \in ConcArgs, fail \in BOOLEAN : RaceSet(arg, fail)
    \/ IwCall
    \/ IwSize
    \/ IwBytes
    \/ DnSizeEmpty
    \/ DnSizeMax
    \/ \E stops \in BOOLEAN : DnBytes(stops)
    \/ IwDone

SpecRace == InitRace /\ [][NextRace]_vars

(***************************************************************************)
(* Properties.                                                             *)
(***************************************************************************)
\* The allocated size of the block v owns (0 when v holds its bytes inline).
BlockCap(v, h) ==
    IF isHeapAllocated(v) /\ heapPointer(v) \in HeapAddrs(h)
    THEN h.blocks[heapPointer(v)].cap ELSE 0

\* The object the guard of thread t is spinning on.
Target(t) == SpinGuardLocks(thr[t].a, thr[t].b)[thr[t].k]

Holds(t, x) == x \in Range(thr[t].held)

\* C1: two threads running two-instance operations on the same pair of
\* distinct objects, in either argument order, never reach a state in which
\* each holds the lock of one object and spins on the lock of the other.
C1_NoLockCycle ==
    ~ \E t \in Threads, u \in Threads, x \in Shared, y \in Shared :
         /\ t # u /\ x # y
         /\ thr[t].pc = "lock" /\ Holds(t, x) /\ Target(t) = y
         /\ thr[u].pc = "lock" /\ Holds(u, y) /\ Target(u) = x

\* C2: no two threads hold the lock of the same object, at most one thread
\* is in the body of an operation on an object, and a thread in a body
\* holds the lock of every object of its call, each flag being set.
C2_MutualExclusion ==
    /\ \A t \in Threads, u \in Threads, x \in Inst :
          Holds(t, x) /\ Holds(u, x) => t = u
    /\ \A t \in Threads, u \in Threads :
          thr[t].pc = "body" /\ thr[u].pc = "body" /\ t # u
             => {thr[t].a, thr[t].b} \cap {thr[u].a, thr[u].b} = {}
    /\ \A t \in Threads :
          /\ thr[t].pc = "body" => Range(thr[t].held) = {thr[t].a, thr[t].b}
          /\ \A x \in Range(thr[t].held) : inst[x].lock_

\* A thread is in the body of a two-instance operation while the other
\* thread spins on one of its two objects.
C2_Witness ==
    \E t \in Threads, u \in Threads :
       /\ t # u
       /\ thr[t].pc = "body" /\ thr[t].a # thr[t].b
       /\ thr[u].pc = "lock" /\ Target(u) \in {thr[t].a, thr[t].b}

HeapSetAfterHeapSet ==
    /\ last.op = "set" /\ last.ans /\ last.size > INLINE_SIZE
    /\ last'.op = "set" /\ last'.ans /\ last'.size > INLINE_SIZE
    /\ last'.a = last.a

\* C4 (as claimed): over successive successful sets of more than INLINE_SIZE
\* bytes on one object, the allocated size of its block never decreases: the
\* block is as large as the largest length set so far.
C4_NeverShrinks ==
    last.op = "set" /\ last.peak > 0 =>
        BlockCap(inst[last.a], heap) >= last.peak

\* C4 (amended): such a set keeps the block the object owns, with its
\* allocated size, when the length does not exceed the current length, and
\* otherwise frees it and allocates a block of exactly the new length; the
\* block is never smaller than the current length.
C4_ReuseOrExact ==
    [][HeapSetAfterHeapSet =>
          LET v == inst[last'.a]
              w == inst'[last'.a]
          IN  /\ IF last'.size <= v.size_
                 THEN /\ heapPointer(w) = heapPointer(v)
                      /\ BlockCap(w, heap') = BlockCap(v, heap)
                      /\ heap'.freed = <<>> /\ heap'.mallocs = <<>>
                 ELSE /\ BlockCap(w, heap') = last'.size
                      /\ heap'.freed = <<heapPointer(v)>>
                      /\ heap'.mallocs = <<heapPointer(w)>>
              /\ BlockCap(w, heap') >= w.size_
              /\ ~heap'.fault]_vars

\* A set that replaced the block owned by a new one.
C4_Witness ==
    /\ last.op = "set" /\ last.ans /\ last.size > INLINE_SIZE
    /\ Len(heap.freed) = 1 /\ Len(heap.mallocs) = 1
    /\ BlockCap(inst[last.a], heap) = last.size

\* C5: a set that returns false leaves the object empty (size 0, no bytes,
\* no block) and has freed the block the object owned, once; it fails only
\* on a null pointer with a non-zero size or on a failed allocation.
C5_FailedSetLeavesEmpty ==
    [][last'.op = "set" /\ ~last'.ans =>
          LET v == inst[last'.a]
              w == inst'[last'.a]
          IN  /\ size(w) = 0
              /\ bytes(w, heap') = <<>>
              /\ ~isHeapAllocated(w) /\ w.raw_data_ = ZeroRaw
              /\ heap'.freed =
                    IF isHeapAllocated(v) THEN <<heapPointer(v)>> ELSE <<>>
              /\ Allocated(heap') =
                    Allocated(heap) \ (IF isHeapAllocated(v) THEN {heapPointer(v)} ELSE {})
              /\ ~heap'.fault
              /\ \/ last'.isNull /\ last'.size > 0
                 \/ heap'.mallocs = <<NULL>>]_vars

\* A set failed on an object that owned a block.
C5_Witness ==
    /\ last.op = "set" /\ ~last.ans
    /\ Len(heap.freed) = 1
    /\ size(inst[last.a]) = 0

\* C6: create returns no value exactly when the pointer is null with a
\* non-zero length or the allocation for a length above INLINE_SIZE fails;
\* create( null, 0 ) yields the empty value; lengths up to INLINE_SIZE never
\* allocate; a failed create leaves the set of allocated blocks as it was.
C6_CreateFailsIff ==
    [][last'.op = "create" =>
          LET c == last' IN
          /\ ~c.ans <=> \/ c.size > 0 /\ c.isNull
                        \/ c.size > INLINE_SIZE /\ heap'.mallocs = <<NULL>>
          /\ c.isNull /\ c.size = 0 =>
                c.ans /\ size(inst'[c.a]) = 0 /\ bytes(inst'[c.a], heap') = <<>>
          /\ ~c.isNull /\ c.size <= INLINE_SIZE => c.ans /\ heap'.mallocs = <<>>
          /\ ~c.ans => /\ ~inst'[c.a].live
                       /\ Allocated(heap') = Allocated(heap)
                       /\ heap'.freed = <<>>
          /\ ~heap'.fault]_vars

\* A create failed because the allocation failed.
C6_Witness ==
    /\ last.op = "create" /\ ~last.ans /\ ~last.isNull
    /\ heap.mallocs = <<NULL>>

\* C7: a move (construction or assignment) from a distinct source gives the
\* destination the source's size and bytes, leaves the source empty and
\* without a block, and frees the block the destination owned.
C7_MoveTransfers ==
    [][last'.op \in {"moveAssign", "moveConstruct"} /\ last'.a # last'.b =>
          LET a == last'.a
              b == last'.b
          IN  /\ size(inst'[a]) = size(inst[b])
              /\ bytes(inst'[a], heap') = bytes(inst[b], heap)
              /\ size(inst'[b]) = 0 /\ bytes(inst'[b], heap') = <<>>
              /\ ~isHeapAllocated(inst'[b]) /\ inst'[b].raw_data_ = ZeroRaw
              /\ heap'.freed =
                    IF isHeapAllocated(inst[a]) THEN <<heapPointer(inst[a])>>
                    ELSE <<>>
              /\ isHeapAllocated(inst[a]) =>
                    heapPointer(inst[a]) \notin Allocated(heap')
              /\ heap'.mallocs = <<>>
              /\ ~heap'.fault]_vars

\* A move assignment of a heap value over a destination that owned a block.
C7_Witness ==
    /\ last.op = "moveAssign" /\ last.a # last.b
    /\ isHeapAllocated(inst[last.a])
    /\ Len(heap.freed) = 1
    /\ size(inst[last.b]) = 0

\* C8: a = move( a ) leaves a and the heap as they were, takes a's lock
\* once and has released it when it returns.
C8_SelfMoveNoOp ==
    [][\A t \in Threads :
          thr[t].op = "moveAssign" /\ thr[t].a = thr[t].b =>
             LET a == thr[t].a IN
             /\ thr[t].pc = "lock" => thr[t].k = 1 /\ thr[t].held = <<>>
             /\ thr[t].pc = "body" => thr[t].held = <<a>> /\ inst[a].lock_
             /\ thr[t].pc = "body" /\ thr'[t].pc = "unlock" =>
                   /\ inst' = inst
                   /\ size(inst'[a]) = size(inst[a])
                   /\ bytes(inst'[a], heap') = bytes(inst[a], heap)
                   /\ heap'.blocks = heap.blocks
                   /\ heap'.freed = <<>> /\ heap'.mallocs = <<>>
             /\ thr[t].pc = "unlock" /\ thr'[t].pc = "idle" => ~inst'[a].lock_]_vars

\* A thread has run the body of a = move( a ) on a heap value.
C8_Witness ==
    \E t \in Threads :
       /\ thr[t].op = "moveAssign" /\ thr[t].a = thr[t].b
       /\ thr[t].pc = "unlock"
       /\ isHeapAllocated(inst[thr[t].a])

\* C9: a == b is true exactly when a and b have the same size and the same
\* bytes; an object equals itself, two empty values are equal, and an
\* inline value never equals a heap one.
C9_EqualsIffSameBytes ==
    last.op = "eq" =>
        LET a == inst[last.a]
            b == inst[last.b]
        IN  /\ last.ans <=> size(a) = size(b) /\ bytes(a, heap) = bytes(b, heap)
            /\ last.a = last.b => last.ans
            /\ size(a) = 0 /\ size(b) = 0 => last.ans
            /\ isHeapAllocated(a) # isHeapAllocated(b) => ~last.ans

\* Two distinct objects compared equal, one in a block larger than its size.
C9_Witness ==
    /\ last.op = "eq" /\ last.ans /\ last.a # last.b
    /\ BlockCap(inst[last.a], heap) > size(inst[last.a])
    /\ BlockCap(inst[last.b], heap) = size(inst[last.b])

\* Shorter is less; equal lengths order by the first differing byte, as
\* unsigned bytes.
RefLess(x, y) ==
    \/ Len(x) < Len(y)
    \/ /\ Len(x) = Len(y)
       /\ \E i \in 1..Len(x) : x[i] < y[i] /\ \A j \in 1..(i - 1) : x[j] = y[j]

Leq(a, b) == Compare(inst, heap, a, b) \in {"less", "equal"}

\* C10: a <=> b ranks by length, then byte-lexicographically with unsigned
\* bytes; it is "equal" exactly when a == b; and it is a total order
\* (total, antisymmetric, transitive) on the values.
C10_TotalOrder ==
    /\ last.op = "cmp" =>
          LET x == bytes(inst[last.a], heap)
              y == bytes(inst[last.b], heap)
          IN  /\ last.ord = "less" <=> RefLess(x, y)
              /\ last.ord = "greater" <=> RefLess(y, x)
              /\ last.ord = "equal" <=> x = y
              /\ last.ord = "equal" <=> Equals(inst, heap, last.a, last.b)
    /\ \A a \in Live(inst), b \in Live(inst) :
          /\ Leq(a, b) \/ Leq(b, a)
          /\ Leq(a, b) /\ Leq(b, a) => bytes(inst[a], heap) = bytes(inst[b], heap)
          /\ Compare(inst, heap, a, b) = "less"
                <=> Compare(inst, heap, b, a) = "greater"
          /\ \A c \in Live(inst) : Leq(a, b) /\ Leq(b, c) => Leq(a, c)

\* [0x01] < [0x01,0x00] < [0x01,0x01], the first pair just compared.
C10_Witness ==
    /\ last.op = "cmp" /\ last.a = 1 /\ last.b = 2 /\ last.ord = "less"
    /\ bytes(inst[1], heap) = <<1>>
    /\ bytes(inst[2], heap) = <<1, 0>>
    /\ bytes(inst[3], heap) = <<1, 1>>
    /\ Compare(inst, heap, 2, 3) = "less"

\* The live objects whose length exceeds INLINE_SIZE.
Long(I) == {i \in Live(I) : size(I[i]) > INLINE_SIZE}

\* The text of a byte sequence: the bytes, a blank between two of them,
\* within "[ " and " ]".
RECURSIVE Joined(_)
Joined(b) ==
    IF Len(b) = 0 THEN <<>>
    ELSE IF Len(b) = 1 THEN Format02X(b[1])
    ELSE Format02X(Head(b)) \o <<" ">> \o Joined(Tail(b))

Rendered(b) == <<"[", " ">> \o Joined(b) \o <<" ", "]">>

\* C11: between operations, a live value of more than INLINE_SIZE bytes
\* owns an allocated block that no other value refers to, every allocated
\* block is owned by such a value, a value of at most INLINE_SIZE bytes
\* holds its bytes in raw_data_, and bytes() and str() give the stored bytes
\* and their text whether they are inline or in a block.
C11_HeapIffLong ==
    /\ \A i \in Live(inst) :
          LET v == inst[i]
              b == bytes(v, heap)
          IN  /\ i \in Long(inst) =>
                    /\ heapPointer(v) \in Allocated(heap)
                    /\ \A j \in Long(inst) \ {i} :
                          heapPointer(inst[j]) # heapPointer(v)
              /\ i \notin Long(inst) => b = SubSeq(v.raw_data_, 1, size(v))
              /\ Len(b) = size(v)
              /\ \A k \in 1..Len(b) : b[k] \in 0..255
              /\ str(v, heap) = Rendered(b)
    /\ Allocated(heap) = {heapPointer(inst[i]) : i \in Long(inst)}
    /\ last.op \in {"create", "set"} /\ last.ans =>
          bytes(inst[last.a], heap) = last.buf
    /\ ~heap.fault

\* A value of INLINE_SIZE bytes and one of INLINE_SIZE + 1 bytes with the
\* same first bytes: the only block is the second one's.
C11_Witness ==
    /\ inst[1].live /\ size(inst[1]) = INLINE_SIZE
    /\ inst[2].live /\ size(inst[2]) = INLINE_SIZE + 1
    /\ SubSeq(bytes(inst[2], heap), 1, INLINE_SIZE) = bytes(inst[1], heap)
    /\ Allocated(heap) = {heapPointer(inst[2])}
    /\ last.op = "set" /\ last.a = 1

\* The step is a set that repeats the successful set before it.
RepeatedSet ==
    /\ last.op = "set" /\ last.ans
    /\ last'.op = "set" /\ last'.a = last.a
    /\ last'.isNull = last.isNull /\ last'.buf = last.buf
    /\ last'.size = last.size

\* C12 (as claimed): a set that repeats a successful set leaves bytes() as
\* it was, and any set of a length above INLINE_SIZE and not above the
\* current length calls neither heap_caps_malloc nor heap_caps_free.
C12_NoAllocOnShrink ==
    [][last'.op = "set" =>
          LET v == inst[last'.a]
              w == inst'[last'.a]
          IN  /\ RepeatedSet =>
                    last'.ans /\ bytes(w, heap') = bytes(v, heap)
              /\ last'.size > INLINE_SIZE /\ last'.size <= size(v) =>
                    /\ heap'.mallocs = <<>> /\ heap'.freed = <<>>
                    /\ Allocated(heap') = Allocated(heap)]_vars

\* C12 (amended): the same, for a set whose data pointer is not null; such a
\* set succeeds and keeps the block the object owns.
C12_NoAllocOnShrinkNonNull ==
    [][last'.op = "set" =>
          LET v == inst[last'.a]
              w == inst'[last'.a]
          IN  /\ RepeatedSet =>
                    last'.ans /\ bytes(w, heap') = bytes(v, heap)
              /\ ~last'.isNull /\ last'.size > INLINE_SIZE
                    /\ last'.size <= size(v) =>
                    /\ last'.ans /\ bytes(w, heap') = last'.buf
                    /\ heapPointer(w) = heapPointer(v)
                    /\ heap'.mallocs = <<>> /\ heap'.freed = <<>>
                    /\ Allocated(heap') = Allocated(heap)
                    /\ ~heap'.fault]_vars

\* A set of fewer bytes, still above INLINE_SIZE, on an object that owns a
\* block: the block is kept.
C12_Witness ==
    /\ last.op = "set" /\ last.ans /\ ~last.isNull
    /\ last.size > INLINE_SIZE
    /\ BlockCap(inst[last.a], heap) > last.size
    /\ heap.mallocs = <<>> /\ heap.freed = <<>>

\* C13: clone leaves the source as it was; when it succeeds the copy is what
\* create yields for the source's bytes, with the source's size and bytes
\* and a block of its own; it fails exactly when the allocation for a
\* source above INLINE_SIZE fails, and then nothing is allocated.  A later
\* operation changes no object other than the ones it is applied to.
C13_CloneIsCopy ==
    [][/\ last'.op = "clone" =>
             LET a == last'.a
                 b == last'.b
                 p == IF heap'.mallocs = <<>> THEN NULL ELSE heap'.mallocs[1]
             IN  /\ inst'[b] = inst[b]
                 /\ bytes(inst'[b], heap') = bytes(inst[b], heap)
                 /\ last'.ans =>
                       /\ inst'[a].live
                       /\ inst'[a] = create(heap, FALSE, bytes(inst[b], heap),
                                            size(inst[b]), p).v
                       /\ size(inst'[a]) = size(inst[b])
                       /\ bytes(inst'[a], heap') = bytes(inst[b], heap)
                       /\ IF isHeapAllocated(inst'[a])
                          THEN /\ heapPointer(inst'[a]) # heapPointer(inst[b])
                               /\ heapPointer(inst'[a]) \notin Allocated(heap)
                               /\ heap'.mallocs = <<heapPointer(inst'[a])>>
                          ELSE heap'.mallocs = <<>>
                 /\ ~last'.ans <=> /\ size(inst[b]) > INLINE_SIZE
                                   /\ heap'.mallocs = <<NULL>>
                 /\ ~last'.ans => /\ ~inst'[a].live
                                  /\ Allocated(heap') = Allocated(heap)
                 /\ heap'.freed = <<>>
                 /\ ~heap'.fault
       /\ \A i \in Live(inst) \ {last'.a, last'.b} :
             /\ inst'[i] = inst[i]
             /\ bytes(inst'[i], heap') = bytes(inst[i], heap)]_vars

\* A clone of a value held in a block, both alive with the same bytes.
C13_Witness ==
    /\ last.op = "clone" /\ last.ans
    /\ isHeapAllocated(inst[last.a]) /\ isHeapAllocated(inst[last.b])
    /\ heapPointer(inst[last.a]) # heapPointer(inst[last.b])
    /\ bytes(inst[last.a], heap) = bytes(inst[last.b], heap)

\* The text the claim gives for a byte sequence.
RECURSIVE ClaimedItems(_)
ClaimedItems(b) ==
    IF Len(b) = 0 THEN <<>>
    ELSE <<" ", "0", "x", HexDigits[(Head(b) \div 16) + 1],
           HexDigits[(Head(b) % 16) + 1]>> \o ClaimedItems(Tail(b))

ClaimedStr(b) ==
    IF Len(b) = 0 THEN <<"[", " ", "]">>
    ELSE <<"[">> \o ClaimedItems(b) \o <<" ", "]">>

\* C14: str() is "[ ", the bytes as 0x and two upper-case hexadecimal
\* digits with one blank between them, and " ]"; the empty value gives
\* "[ ]", one blank between the brackets.
C14_StrRendering ==
    last.op = "str" => last.out = ClaimedStr(bytes(inst[last.a], heap))

\* The format the claim gives for the bytes of a minimum and a maximum.
ClaimedFormat(mn, mx) ==
    IF Len(mn) = 0 /\ Len(mx) = 0 THEN String
    ELSE IF Len(mn) = 0 THEN BitSet
    ELSE IF mn = <<0>> /\ mx = <<1>> THEN Boolean
    ELSE Numeric

\* C15: fromValueRange answers for every pair, in this order of priority:
\* String when both are empty, BitSet when only the minimum is empty,
\* Boolean for the one-byte pair ([0x00], [0x01]), Numeric for every other
\* pair.
C15_FormatPriority ==
    last.op = "fromValueRange" =>
       /\ last.n \in {Numeric, Boolean, BitSet, String}
       /\ last.n = ClaimedFormat(bytes(inst[last.a], heap), bytes(inst[last.b], heap))

\* A one-byte pair other than ([0x00], [0x01]) was classified Numeric.
C15_Witness ==
    /\ last.op = "fromValueRange"
    /\ size(inst[last.a]) = 1 /\ size(inst[last.b]) = 1
    /\ bytes(inst[last.a], heap) = <<0>> /\ bytes(inst[last.b], heap) # <<1>>
    /\ last.n = Numeric

\* C16: the format a Spec reports is the format derived from the minimum
\* and maximum it holds, in every state: when create has returned it and
\* after it has been the source or the target of a move.
C16_FormatNeverDrifts ==
    \A s \in PSlots :
       pspec[s].live =>
          format(pspec[s]) = fromValueRange(pspec[s].minVal_, pspec[s].maxVal_, heap)

\* C17: Spec::create returns no Spec exactly when one of the three copies
\* failed (heap_caps_malloc returned NULL, or a null data pointer came with
\* a non-zero size); otherwise it returns a Spec holding the three values
\* as given, whatever they contain, a minimum above the maximum included.
\* A call that returns no Spec leaves no block behind.
C17_CreateFailsIffCopyFails ==
    [][last'.op = "specCreate" =>
         LET s == pspec'[last'.a]
             failed == \/ NULL \in Range(heap'.mallocs)
                       \/ last'.n \in 1..3 /\ size(inst[last'.n]) > 0
         IN  /\ last'.ans <=> \A i \in 1..3 : last'.oks[i]
             /\ last'.ans <=> ~failed
             /\ last'.ans =>
                   /\ s.live
                   /\ bytes(s.initVal_, heap') = bytes(inst[1], heap)
                   /\ bytes(s.minVal_, heap') = bytes(inst[2], heap)
                   /\ bytes(s.maxVal_, heap') = bytes(inst[3], heap)
             /\ ~last'.ans =>
                   /\ ~s.live
                   /\ Allocated(heap') = Allocated(heap)]_vars

\* A Spec returned by create with its minimum above its maximum.
C17_Witness ==
    /\ last.op = "specCreate" /\ last.ans
    /\ pspec[last.a].live
    /\ bytes(pspec[last.a].minVal_, heap) = <<10>>
    /\ bytes(pspec[last.a].maxVal_, heap) = <<0>>

\* C18: a Spec returned by create holds at most 4 bytes in each of its
\* initial, minimum and maximum values when its format is Numeric, BitSet
\* or Boolean, and at most MAX_STRING_SIZE bytes in its initial value when
\* its format is String.
C18_PayloadSizes ==
    last.op = "specCreate" /\ last.ans =>
       LET s == pspec[last.a]
           lim == IF format(s) = BitSet THEN MAX_BITSET_SIZE ELSE MAX_NUMERIC_SIZE
       IN  IF format(s) = String
           THEN size(s.initVal_) <= MAX_STRING_SIZE
           ELSE /\ size(s.initVal_) <= lim
                /\ size(s.minVal_) <= lim
                /\ size(s.maxVal_) <= lim

C20_EmptyCandidateRejected ==
    last.op = "isWithinRange" /\ size(inst[last.b]) = 0 => ~last.ans

\* The empty candidate was refused by a Numeric Spec whose range holds 0.
C20_Witness ==
    /\ last.op = "isWithinRange" /\ ~last.ans
    /\ size(inst[last.b]) = 0
    /\ format(pspec[last.a]) = Numeric
    /\ decodeNumericValue(pspec[last.a].minVal_, heap) <= 0
    /\ decodeNumericValue(pspec[last.a].maxVal_, heap) >= 0
    /\ size(pspec[last.a].maxVal_) > 0

\* The integer the claims give for a byte sequence: its bytes, lowest
\* first, above them zeros, read as a signed 32-bit integer; 0 when the
\* sequence is empty or longer than 4 bytes.
ClaimedDecode(b) ==
    LET at(i) == IF i <= Len(b) THEN b[i] ELSE 0
        low == at(1) + 256 * at(2) + 65536 * at(3)
    IN  IF Len(b) = 0 \/ Len(b) > 4 THEN 0
        ELSE IF at(4) >= 128 THEN low + 16777216 * (at(4) - 128) - 2147483647 - 1
        ELSE low + 16777216 * at(4)

\* C21: a Numeric Spec accepts a candidate exactly when its length is 1 to
\* 4 and its decoded value lies between the decoded minimum and the decoded
\* maximum, as signed 32-bit integers; longer candidates are refused and a
\* Spec whose minimum decodes above its maximum accepts nothing.
C21_NumericRange ==
    last.op = "isWithinRange" /\ format(pspec[last.a]) = Numeric =>
       LET c == bytes(inst[last.b], heap)
           mn == ClaimedDecode(bytes(pspec[last.a].minVal_, heap))
           mx == ClaimedDecode(bytes(pspec[last.a].maxVal_, heap))
       IN  /\ last.ans <=> /\ 1 <= Len(c) /\ Len(c) <= 4
                           /\ mn <= ClaimedDecode(c) /\ ClaimedDecode(c) <= mx
           /\ Len(c) > 4 => ~last.ans
           /\ mn > mx => ~last.ans

\* The candidate [0x0B] refused by the Numeric Spec of range [0, 10].
C21_Witness ==
    /\ last.op = "isWithinRange" /\ ~last.ans
    /\ format(pspec[last.a]) = Numeric
    /\ bytes(pspec[last.a].minVal_, heap) = <<0>>
    /\ bytes(pspec[last.a].maxVal_, heap) = <<10>>
    /\ bytes(inst[last.b], heap) = <<11>>

ClaimedResolution ==
    [c \in 0..7 |->
        CASE c = 0 -> [shift |-> 0, coeff |-> 1, scale |-> <<1, 1>>]
          [] c = 1 -> [shift |-> 0, coeff |-> 5, scale |-> <<5, 1>>]
          [] c = 2 -> [shift |-> 1, coeff |-> 1, scale |-> <<10, 1>>]
          [] c = 3 -> [shift |-> 1, coeff |-> 5, scale |-> <<50, 1>>]
          [] c = 4 -> [shift |-> -2, coeff |-> 1, scale |-> <<1, 100>>]
          [] c = 5 -> [shift |-> -2, coeff |-> 5, scale |-> <<5, 100>>]
          [] c = 6 -> [shift |-> -1, coeff |-> 1, scale |-> <<1, 10>>]
          [] c = 7 -> [shift |-> -1, coeff |-> 5, scale |-> <<5, 10>>]]

\* C25: for each of the 8 codes shiftOf is the sign-extended value of bits
\* 2:1 (0, +1, -2, -1) and coeffOf is 1 or 5 by bit 0, so that the codes
\* 0..7 stand for x1, x5, x10, x50, x0.01, x0.05, x0.1, x0.5.
C25_ResolutionTable ==
    /\ last.op = "shiftOf" => last.n = ClaimedResolution[last.a].shift
    /\ last.op = "coeffOf" => last.n = ClaimedResolution[last.a].coeff
    /\ last.op = "scaleFactorOf" =>
          last.out[1] * ClaimedResolution[last.a].scale[2]
             = ClaimedResolution[last.a].scale[1] * last.out[2]

\* shiftOf answered -2 for the code 0b100 (x0.01).
C25_Witness ==
    /\ last.op = "shiftOf"
    /\ last.a = 4
    /\ last.n = -2

\* C26: over every create, clone, set, move construction, move assignment
\* and destruction, failed ones included, a block is freed only while it is
\* allocated and only once, a block stops being allocated only by being
\* freed, and after the call every allocated block is the block of exactly
\* one live value and every live value longer than INLINE_SIZE holds an
\* allocated block of its own, whose bytes were all written: nothing is
\* leaked, freed twice, read after its release or shared.
C26_BlockOwnership ==
    [][/\ \A k \in 1..Len(heap'.freed) :
             /\ heap'.freed[k] \in Allocated(heap) \cup Range(heap'.mallocs)
             /\ \A m \in 1..Len(heap'.freed) : m # k => heap'.freed[m] # heap'.freed[k]
       /\ Allocated(heap) \ Allocated(heap') \subseteq Range(heap'.freed)
       /\ Allocated(heap') \ Allocated(heap) \subseteq Range(heap'.mallocs)
       /\ \A p \in Allocated(heap') :
             Cardinality({i \in Long(inst') : heapPointer(inst'[i]) = p}) = 1
       /\ \A i \in Long(inst') :
             /\ heapPointer(inst'[i]) \in Allocated(heap')
             /\ \A k \in 1..size(inst'[i]) : bytes(inst'[i], heap')[k] # Garbage
       /\ ~heap'.fault]_vars

\* A move assignment that freed the block of its target and handed it the
\* block of its source, which is left empty.
C26_Witness ==
    /\ last.op = "moveAssign" /\ last.a # last.b
    /\ Len(heap.freed) = 1
    /\ isHeapAllocated(inst[last.a])
    /\ heapPointer(inst[last.a]) \in Allocated(heap)
    /\ size(inst[last.b]) = 0
    /\ Cardinality(Allocated(heap)) = 1

\* C27: a set that copies more than INLINE_SIZE bytes into the block the
\* object already owns finds that block at least as long as the request;
\* after every call the block of a value longer than INLINE_SIZE is at
\* least as long as the value, no copy has run past the end of a block and
\* the bytes read back are bytes that were written.
C27_BlockHoldsValue ==
    [][/\ last'.op = "set" /\ last'.ans /\ last'.size > INLINE_SIZE
            /\ heap'.mallocs = <<>> =>
             /\ isHeapAllocated(inst[last'.a])
             /\ BlockCap(inst[last'.a], heap) >= last'.size
             /\ heapPointer(inst'[last'.a]) = heapPointer(inst[last'.a])
             /\ bytes(inst'[last'.a], heap') = last'.buf
       /\ \A i \in Long(inst') :
             /\ BlockCap(inst'[i], heap') >= size(inst'[i])
             /\ Garbage \notin Range(bytes(inst'[i], heap'))
       /\ ~heap'.fault]_vars

\* A set of INLINE_SIZE + 1 bytes written into a block of INLINE_SIZE + 2
\* bytes.
C27_Witness ==
    /\ last.op = "set" /\ last.ans /\ last.size = INLINE_SIZE + 1
    /\ heap.mallocs = <<>> /\ heap.freed = <<>>
    /\ BlockCap(inst[last.a], heap) = INLINE_SIZE + 2

\* Thread t leaves the body of a reading call in this step.
ReadReturns(t) ==
    /\ thr[t].op \in ReadOps
    /\ thr[t].pc \in {"body", "body2"}
    /\ thr'[t].pc = "unlock"

\* C28: a size(), bytes(), str() or clone() that runs while another thread
\* calls set or a move assignment on the same object returns the size, the
\* bytes, the text or a copy of the whole content the object has when no
\* change of it is under way: the writer is outside its body while the
\* reader is inside, and nothing read comes from a released block.
C28_ReadsAreSnapshots ==
    [][\A t \in Threads :
          ReadReturns(t) =>
             LET a == thr[t].a
                 content == bytes(inst[a], heap)
             IN  /\ \A u \in Threads \ {t} :
                       thr[u].pc \in {"body", "body2"} => a \notin {thr[u].a, thr[u].b}
                 /\ Garbage \notin Range(content)
                 /\ thr[t].pc = "body2" => thr[t].n = Len(content)
                 /\ thr[t].op = "size" => thr'[t].n = Len(content)
                 /\ thr[t].op = "bytes" => thr'[t].out = content
                 /\ thr[t].op = "str" => thr'[t].out = Rendered(content)
                 /\ thr[t].op = "clone" /\ thr'[t].ans =>
                       /\ inst'[Local].live
                       /\ bytes(inst'[Local], heap') = content
                 /\ ~heap'.fault]_vars

\* bytes() has returned more than INLINE_SIZE bytes of an object while the
\* other thread spins on the lock of that object for a set.
C28_Witness ==
    /\ thr["T1"].pc = "unlock" /\ thr["T1"].op = "bytes"
    /\ Len(thr["T1"].out) > INLINE_SIZE
    /\ thr["T1"].out = bytes(inst[thr["T1"].a], heap)
    /\ thr["T2"].pc = "lock" /\ thr["T2"].op = "set"
    /\ thr["T2"].a = thr["T1"].a

\* C29: every operation leaves its body holding the locks of its objects,
\* taken in the order of the guard, and then releases them all, the one
\* taken last first, whatever the body returned; the lock of an object is
\* set only while a call on that object is between its first lock() and its
\* last unlock().
C29_LocksReleased ==
    [][/\ \A t \in Threads :
             /\ thr[t].pc = "body" /\ thr'[t].pc = "unlock" =>
                   thr'[t].held = SpinGuardLocks(thr[t].a, thr[t].b)
             /\ thr[t].pc = "unlock" /\ thr'[t] # thr[t] =>
                   LET h == thr[t].held
                       x == h[Len(h)]
                   IN  /\ Len(h) >= 1
                       /\ inst[x].lock_ /\ ~inst'[x].lock_
                       /\ \A y \in Inst \ {x} : inst'[y].lock_ = inst[y].lock_
                       /\ IF thr'[t].pc = "unlock"
                          THEN thr'[t].held = SubSeq(h, 1, Len(h) - 1)
                          ELSE Len(h) = 1 /\ thr'[t].held = <<>>
       /\ \A x \in Inst :
             inst'[x].lock_ =>
                \E t \in Threads :
                   /\ thr'[t].pc \in {"lock", "body", "unlock"}
                   /\ x \in {thr'[t].a, thr'[t].b}]_vars

\* operator== has returned false on two objects of different sizes and has
\* released the lock of the second object, not yet that of the first.
C29_Witness ==
    \E t \in Threads :
       /\ thr[t].pc = "unlock" /\ thr[t].op = "eq" /\ ~thr[t].ans
       /\ thr[t].a # thr[t].b
       /\ size(inst[thr[t].a]) # size(inst[thr[t].b])
       /\ thr[t].held = <<thr[t].a>>
       /\ inst[thr[t].a].lock_ /\ ~inst[thr[t].b].lock_

\* C30: isWithinRange returns true or false and never faults, also while
\* another thread calls set on the candidate: the bytes it reads are as
\* many as the size it tested, it never reads byte 0 of an empty copy and
\* never copies more than 4 bytes onto the decoded integer.
C30_RangeCheckNeverFaults ==
    /\ thr["T1"].pc # "terminated"
    /\ thr["T1"].ord \notin {"out_of_range", "overflow"}
    /\ thr["T1"].pc \in {"dnSize", "iwDone"} /\ thr["T1"].out # <<>> =>
          Len(thr["T1"].out) = thr["T1"].n

====
